---- MODULE Spec2Model ----
(***************************************************************************)
(* One room of the Impostor game engine: the RedisRoomStore keys of the    *)
(* room, RoomService membership operations, and the GameService state      *)
(* machine with its per-room lock, its three timer tasks and the handlers  *)
(* that run without the lock (start_game, end_game, guess_word).           *)
(*                                                                         *)
(* A step of the model is the code a coroutine runs between two awaits     *)
(* that matter: a handler that holds the lock is split where it has read   *)
(* the turn state and has not yet written it; end_game is split after its  *)
(* game_ended broadcast; start_game after its lobby check.                 *)
(***************************************************************************)
EXTENDS Integers, Sequences, FiniteSets, TLC

\* ------------------------------------------------------------------ bounds
NumConns == 2
MaxNow == 1
MaxRound == 2
MaxCalls == 2
MaxReads == 2
NumMembers == 3
MaxWords == 3
MaxPayloads == 3
MaxResults == 2
\* settings, scaled down from the defaults of config.py (30, 60, 60 seconds)
TurnDuration == 1
TurnGrace == 1
VoteDuration == 1

Conn == 1..NumConns
NoConn == 0
Skip == NumConns + 1
WORDS == {"apple"}
NoWord == "none"
\* the pool words as sequences of characters
WordChars == [apple |-> <<"a", "p", "p", "l", "e">>]
\* the guesses an impostor sends: the word and another word
Guesses == {WordChars.apple, <<"p", "e", "a", "r">>}
\* the same with capitals, blanks around and inside, and nothing but blanks
AllGuesses ==
    Guesses \cup {<<>>, <<" ">>, <<" ", "A", "p", "p", "L", "E", " ">>,
                  <<"a", "p", " ", " ", "p", "l", "e">>}
NoRole == "none"
NoNick == "none"
Nicks == {"ann", "bob"}
Roles == {"impostor", "crew"}
\* the words a speaker submits, as sequences of characters
SpokenWords == {<<>>, <<" ">>, <<"t">>, <<" ", "t", " ">>}
\* the coroutines that broadcast to a room: the one that holds the room
\* lock, and the turn timer task, whose turn_timer tick goes out without it
Emitter == {"holder", "timer"}
NoBroadcast == [rest |-> <<>>]
Member == 1..NumMembers
NoMember == 0
\* the max_players setting, scaled down from the default of config.py (8)
MaxPlayers == 2

VARIABLES
    conns,        \* room:{id}:conns, as list_conns returns it
    ready,        \* conn:{id} hash, field ready
    nick,         \* conn:{id} hash, field nickname
    role,         \* conn:{id} hash, field role
    host,         \* room:{id}:host
    game_state,   \* room:{id}:game_state
    secret_word,  \* room:{id}:secret_word
    impostor,     \* room:{id}:impostor
    turn_state,   \* room:{id}:turn_state as get_turn_state returns it
    turn_order,   \* room:{id}:turn_order
    votes,        \* room:{id}:votes
    tokens,       \* resume:{token} hashes
    rd,           \* the hashes consume_resume_token calls have read and not
                  \* yet deleted: snapshot -> number of such calls
    used,         \* conn ids handed out by make_conn_id so far
    timers,       \* _turn_tasks / _grace_tasks / _voting_tasks of the room
    lp,           \* the coroutine holding _turn_locks[room], and its locals
    eg,           \* an end_game call running without the lock
    sg,           \* a start_game call running without the lock
    rc,           \* a reconnect between RoomService.reconnect and the lock
    now,          \* time.time(), in whole seconds
    calls,        \* how many start_game, end_game, guess_word and disconnect
                  \* requests the room has received
    out,          \* what the last step handed out: notifier payloads, raised error
    hist,         \* what has been broadcast and done so far (history)
    turn_words,   \* room:{id}:turn_words
    word_history, \* room:{id}:word_history
    gw,           \* a guess_word call between its two reads, and its locals
    attached,     \* WSManager._by_id: the conn ids with a socket
    sent,         \* the payloads handed to WSManager.broadcast, in call order
    bc,           \* the broadcast call each emitter is in, and the
                  \* recipients it has not sent to yet
    inbox,        \* what each socket has been sent, in order
    sconns,       \* room:{id}:conns of a room whose membership calls are
                  \* followed Redis command by Redis command
    shost,        \* room:{id}:host of that room
    shash,        \* the conn ids of that room that have a conn:{id} hash
    cache,        \* _room_conns_cache entry of that room
    mcall,        \* the join_room / leave_room call of each of its
                  \* connections: the command it issues next, and its locals
    ts_hash,      \* room:{id}:turn_state, the hash as Redis holds it
    ts_cache,     \* _turn_state_cache entry of the room
    ts_written    \* the state last passed to set_turn_state (history)

vars == <<conns, ready, nick, role, host, game_state, secret_word,
          impostor, turn_state, turn_order, votes, tokens, rd, used, timers,
          lp, eg, sg, rc, now, calls, out, hist, turn_words, word_history,
          gw, attached, sent, bc, inbox, sconns, shost, shash, cache, mcall,
          ts_hash, ts_cache, ts_written>>

\* the turn state hash and its cache
turnStoreVars == <<ts_hash, ts_cache, ts_written>>

\* the words the speakers have submitted
wordVars == <<turn_words, word_history>>

\* the sockets and the broadcasts on their way
wireVars == <<attached, sent, bc, inbox>>

\* the room followed command by command
memVars == <<sconns, shost, shash, cache, mcall>>

\* everything else but the payloads handed out
gameVars == <<conns, ready, nick, role, host, game_state, secret_word,
              impostor, turn_state, turn_order, votes, tokens, rd, used,
              timers, lp, eg, sg, rc, now, calls, hist, turn_words,
              word_history, gw>>

storeVars == <<conns, ready, nick, role, host, game_state, secret_word,
               impostor, turn_state, turn_order, votes, tokens, used>>

\* ----------------------------------------------------------------- helpers
EmptyMap == [x \in {} |-> 0]

NoState == [phase |-> "none"]

Merge(state, upd) ==
    [k \in DOMAIN state \cup DOMAIN upd |->
        IF k \in DOMAIN upd THEN upd[k] ELSE state[k]]

Pop(state, keys) == [k \in DOMAIN state \ keys |-> state[k]]

Get(state, key, default) == IF key \in DOMAIN state THEN state[key] ELSE default

Min(S) == CHOOSE x \in S : \A y \in S : x <= y

RECURSIVE SortedSeq(_)
SortedSeq(S) ==
    IF S = {} THEN <<>> ELSE <<Min(S)>> \o SortedSeq(S \ {Min(S)})

Range(s) == {s[i] : i \in 1..Len(s)}

Perms(S) ==
    {s \in [1..Cardinality(S) -> S] : \A i, j \in 1..Cardinality(S) :
        i # j => s[i] # s[j]}

Idle == [pc |-> "idle"]

\* _get_turn_state_for_phase
GetTurnStateForPhase(phase) ==
    IF turn_state.phase = phase THEN turn_state ELSE NoState

\* _is_current_conn
IsCurrentConn(state, c) == Get(state, "current_conn_id", NoConn) = c

\* ------------------------------------------------------------- timer tasks
NoTimers == [turn |-> "none", grace |-> "none", voting |-> "none"]

\* task.cancel() on the dict entry of `kind`: the task stops at its await;
\* when it is the task that holds the lock, its transition is abandoned and
\* async with releases the lock.
CancelledLp(l, tm, kind) ==
    IF l.pc # "idle" /\ l.task = kind /\ l.reg /\ tm[kind] = "armed"
    THEN Idle ELSE l

Cancel(tm, kind) == [tm EXCEPT ![kind] = "none"]

Arm(tm, kind) == [tm EXCEPT ![kind] = "armed"]

\* ---------------------------------------------------------------- payloads
Ev(type, round, idx) == [type |-> type, round |-> round, turn_index |-> idx]

EvResult(type, result) == [type |-> type, result |-> result]

\* the impostor's payload had it been built like the crew's
ImpostorNoticeWithWord(c) ==
    [type |-> "role", role |-> "impostor", message |-> "you are impostor",
     word |-> secret_word, conn |-> c]

\* the role payload assign_roles and handle_reconnect send to the impostor
ImpostorNotice(c) ==
    [type |-> "role", role |-> "impostor", message |-> "you are impostor",
     conn |-> c]

\* the exception a call ends with (KeyError -> NotFound, PermissionError ->
\* Forbidden, RuntimeError -> Conflict in the routes)
Err(kind, op) == [type |-> "error", kind |-> kind, op |-> op]

\* the role payload they send to a crew member
CrewNotice(c, word) ==
    [type |-> "role", role |-> "crew", word |-> word, conn |-> c]

\* hist.last_ended when the lock holder has broadcast no turn_ended
NoTurn == <<0, 0>>

\* the history once the lock holder is `l`: last_ended is the turn whose
\* turn_ended the holder broadcast, kept while it runs _advance_turn_locked
HistAfter(h, l) ==
    [h EXCEPT !.last_ended = IF l.pc \in {"adv2", "sv2"} THEN @ ELSE NoTurn]

\* the history once one more voting_result has been broadcast; results
\* counts those since the last voting_started, and stops at MaxResults
ResultCounted(h) ==
    [h EXCEPT !.results = IF @ < MaxResults THEN @ + 1 ELSE @]

\* str.strip() on a string given as the sequence of its characters
RECURSIVE StripLeft(_)
StripLeft(s) ==
    IF s # <<>> /\ Head(s) = " " THEN StripLeft(Tail(s)) ELSE s

RECURSIVE StripRight(_)
StripRight(s) ==
    IF s # <<>> /\ s[Len(s)] = " "
    THEN StripRight(SubSeq(s, 1, Len(s) - 1)) ELSE s

Strip(s) == StripRight(StripLeft(s))

\* the capitals of the guesses and what str.casefold() makes of them
Lower == [A |-> "a", E |-> "e", L |-> "l", P |-> "p"]

\* str.casefold()
CaseFold(s) ==
    [i \in 1..Len(s) |-> IF s[i] \in DOMAIN Lower THEN Lower[s[i]] ELSE s[i]]

\* a string with every run of blanks made one blank
RECURSIVE Collapse(_)
Collapse(s) ==
    IF Len(s) < 2 THEN s
    ELSE IF s[1] = " " /\ s[2] = " " THEN Collapse(Tail(s))
    ELSE <<s[1]>> \o Collapse(Tail(s))

\* " ".join(s.split())
SplitJoin(s) == Collapse(Strip(s))

\* _normalize_guess
NormalizeGuess(value) == SplitJoin(CaseFold(Strip(value)))

\* hist.taken before a token is issued: token -> the number of
\* consume_resume_token calls that returned its snapshot
NoneTaken == [i \in {} |-> 0]

\* no _room_conns_cache entry for the room (the set is meaningless then)
NoCache == [has |-> FALSE, set |-> {}]

\* a connection with no membership call under way
OpIdle == [pc |-> "idle", remaining |-> {}]

\* ------------------------------------------------------------------- Init
\* create_room: no member, no host, game_state lobby; a fresh GameService.
Init ==
    /\ conns = {}
    /\ ready = [c \in Conn |-> FALSE]
    /\ nick = [c \in Conn |-> NoNick]
    /\ role = [c \in Conn |-> NoRole]
    /\ host = NoConn
    /\ game_state = "lobby"
    /\ secret_word = NoWord
    /\ impostor = NoConn
    /\ turn_state = NoState
    /\ turn_order = <<>>
    /\ votes = EmptyMap
    /\ tokens = {}
    /\ rd = EmptyMap
    /\ used = {}
    /\ timers = NoTimers
    /\ lp = Idle
    /\ eg = Idle
    /\ sg = Idle
    /\ rc = NoConn
    /\ now = 0
    /\ calls = 0
    /\ out = <<>>
    /\ hist = [ended |-> FALSE, last_ended |-> NoTurn, taken |-> NoneTaken,
               turns |-> {}, results |-> 0, outside |-> FALSE]
    /\ turn_words = <<>>
    /\ word_history = <<>>
    /\ gw = Idle
    /\ attached = Conn
    /\ sent = <<>>
    /\ bc = [e \in Emitter |-> NoBroadcast]
    /\ inbox = [c \in Conn |-> <<>>]
    /\ sconns = {}
    /\ shost = NoMember
    /\ shash = {}
    /\ cache = NoCache
    /\ mcall = [m \in Member |-> OpIdle]
    /\ ts_hash = EmptyMap
    /\ ts_cache = NoState
    /\ ts_written = NoState

\* ------------------------------------------------- RedisRoomStore, members
\* add_conn: sadd, hset of room_id, ready "0" and, when one is given, the
\* nickname (role is left as it is), setnx of the host key.
AddConn(c, n) ==
    /\ conns' = conns \cup {c}
    /\ nick' = IF n # NoNick THEN [nick EXCEPT ![c] = n] ELSE nick
    /\ host' = IF host = NoConn THEN c ELSE host

\* the host key after remove_conn(c)
HostAfterRemove(c) ==
    IF host = c
    THEN IF conns \ {c} = {} THEN NoConn ELSE Min(conns \ {c})
    ELSE host

\* remove_conn: srem, delete of the conn hash, host reassignment.
RemoveConn(c) ==
    /\ conns' = conns \ {c}
    /\ ready' = [ready EXCEPT ![c] = FALSE]
    /\ nick' = [nick EXCEPT ![c] = NoNick]
    /\ role' = [role EXCEPT ![c] = NoRole]
    /\ host' = HostAfterRemove(c)

\* issue_resume_token: the snapshot of the conn hash under a fresh token
\* (`id` stands for the token string)
Snapshot(c, id) ==
    [id |-> id, conn |-> c, nick |-> nick[c], ready |-> ready[c],
     role |-> role[c]]

\* ------------------------------------------------------------ RoomService
\* websocket_endpoint, nick path: make_conn_id and join_room
JoinRoom(c, n) ==
    /\ UNCHANGED <<memVars, wordVars, gw, wireVars, turnStoreVars>>
    /\ c \notin used
    /\ AddConn(c, n)
    /\ ready' = [ready EXCEPT ![c] = FALSE]
    /\ used' = used \cup {c}
    /\ out' = <<>>
    /\ UNCHANGED <<role, game_state, secret_word, impostor,
                   turn_state, turn_order, votes, tokens, rd, timers, lp,
                   eg, sg, rc, now, calls, hist>>

\* leave_room (the websocket closed)
LeaveRoom(c) ==
    /\ UNCHANGED <<memVars, wordVars, gw, wireVars, turnStoreVars>>
    /\ c \in conns
    /\ RemoveConn(c)
    /\ out' = <<>>
    /\ UNCHANGED <<game_state, secret_word, impostor, turn_state,
                   turn_order, votes, tokens, rd, used, timers, lp, eg, sg,
                   rc, now, calls, hist>>

\* RoomService.set_ready
SetReady(c, b) ==
    /\ UNCHANGED <<memVars, wordVars, gw, wireVars, turnStoreVars>>
    /\ c \in conns
    /\ ready[c] # b
    /\ ready' = [ready EXCEPT ![c] = b]
    /\ out' = <<>>
    /\ UNCHANGED <<conns, nick, role, host, game_state, secret_word,
                   impostor, turn_state, turn_order, votes, tokens, rd, used,
                   timers, lp, eg, sg, rc, now, calls, hist>>

\* RoomService.disconnect: issue the token, then remove the connection
RoomDisconnect(c) ==
    /\ UNCHANGED <<memVars, wordVars, gw, wireVars, turnStoreVars>>
    /\ c \in conns
    /\ calls < MaxCalls
    /\ calls' = calls + 1
    /\ tokens' = tokens \cup {Snapshot(c, calls + 1)}
    /\ hist' = [hist EXCEPT !.taken = @ @@ [i \in {calls + 1} |-> 0]]
    /\ RemoveConn(c)
    /\ out' = <<>>
    /\ UNCHANGED <<game_state, secret_word, impostor, turn_state,
                   turn_order, votes, rd, used, timers, lp, eg, sg, rc, now>>

\* peek_resume_token: hgetall of the token's hash
PeekResumeToken(t) ==
    /\ UNCHANGED <<memVars, wordVars, gw, wireVars, turnStoreVars>>
    /\ t \in tokens
    /\ out' = <<[type |-> "peek", snapshot |-> t]>>
    /\ UNCHANGED <<storeVars, rd, timers, lp, eg, sg, rc, now, calls, hist>>

\* the reads in flight with one more, or one less, call holding `t`
ReadAdded(t) ==
    [x \in DOMAIN rd \cup {t} |-> IF x \in DOMAIN rd THEN
                                     (IF x = t THEN rd[x] + 1 ELSE rd[x])
                                  ELSE 1]

ReadDone(t) ==
    [x \in {y \in DOMAIN rd : y # t \/ rd[y] > 1} |->
        IF x = t THEN rd[x] - 1 ELSE rd[x]]

RECURSIVE SumOver(_, _)
SumOver(f, S) ==
    IF S = {} THEN 0
    ELSE LET x == CHOOSE y \in S : TRUE IN f[x] + SumOver(f, S \ {x})

\* how many consume_resume_token calls are between hgetall and delete
ReadsInFlight == SumOver(rd, DOMAIN rd)

\* RoomService.reconnect up to the hgetall of consume_resume_token
ConsumeRead(t) ==
    /\ UNCHANGED <<memVars, wordVars, gw, wireVars, turnStoreVars>>
    /\ t \in tokens
    /\ ReadsInFlight < MaxReads
    /\ rd' = ReadAdded(t)
    /\ out' = <<>>
    /\ UNCHANGED <<storeVars, timers, lp, eg, sg, rc, now, calls, hist>>

\* a reconnect whose hgetall finds no hash: KeyError, mapped to 404
ReconnectFail(id) ==
    /\ UNCHANGED <<memVars, wordVars, gw, wireVars, turnStoreVars>>
    /\ id \in DOMAIN hist.taken
    /\ \A t \in tokens : t.id # id
    /\ out' = <<Err("NotFound", "reconnect")>>
    /\ UNCHANGED <<storeVars, rd, timers, lp, eg, sg, rc, now, calls, hist>>

\* the rest of RoomService.reconnect for the snapshot `t` it has read, called
\* for the conn_id of the snapshot as websocket_endpoint holds it: delete of
\* the token's hash, add_conn, set_ready, the lobby_state payload; and the
\* part of handle_reconnect that runs before the lock: set_role and the role
\* payload.
ReconnectRest(t) ==
    /\ UNCHANGED <<memVars, wordVars, gw, wireVars, turnStoreVars>>
    /\ rc = NoConn
    /\ tokens' = tokens \ {t}
    /\ AddConn(t.conn, t.nick)
    /\ ready' = [ready EXCEPT ![t.conn] = t.ready]
    /\ role' = IF t.role # NoRole THEN [role EXCEPT ![t.conn] = t.role] ELSE role
    /\ rc' = t.conn
    /\ out' = <<[type |-> "lobby_state", conn |-> t.conn]>> \o
              (IF t.role = "impostor" THEN <<ImpostorNotice(t.conn)>>
               ELSE IF t.role = "crew" /\ secret_word # NoWord
               THEN <<CrewNotice(t.conn, secret_word)>>
               ELSE <<>>)
    /\ hist' = [hist EXCEPT !.taken[t.id] = @ + 1]
    /\ UNCHANGED <<game_state, secret_word, impostor, turn_state,
                   turn_order, votes, used, timers, lp, eg, sg, now, calls>>

\* a reconnect whose consume_resume_token reads and deletes the hash with no
\* other call in between
RoomReconnect(t) ==
    /\ t \in tokens
    /\ ReconnectRest(t)
    /\ UNCHANGED rd

\* a reconnect that goes on after its hgetall
RoomReconnectLate(t) ==
    /\ t \in DOMAIN rd
    /\ ReconnectRest(t)
    /\ rd' = ReadDone(t)

\* ------------------------------------------------ GameService, turn states
\* the TurnState _start_round persists
StartRoundState(round_num, order, td, tg, vd) ==
    [phase |-> "active", round |-> round_num, turn_index |-> 0,
     current_conn_id |-> order[1], deadline_ts |-> now + td,
     turn_duration |-> td, turn_grace |-> tg, vote_duration |-> vd]

\* new_state of _advance_turn_locked (Python indexes order from 0)
NextTurnState(state, order) ==
    Pop(Merge(state,
              [phase |-> "active", turn_index |-> state.turn_index + 1,
               current_conn_id |-> order[state.turn_index + 2],
               deadline_ts |-> now + Get(state, "turn_duration", 30)]),
        {"turn_remaining", "grace_deadline_ts"})

\* _start_voting had it stored the members in descending order
VotingStateDescending(state, voters) ==
    Pop(Merge(state,
              [phase |-> "voting",
               vote_deadline_ts |-> now + Get(state, "vote_duration", 60),
               voters |-> [i \in 1..Len(voters) |->
                              voters[Len(voters) + 1 - i]]]),
        {"deadline_ts", "turn_remaining", "grace_deadline_ts"})

\* new_state of _start_voting
VotingState(state, voters) ==
    Pop(Merge(state,
              [phase |-> "voting",
               vote_deadline_ts |-> now + Get(state, "vote_duration", 60),
               voters |-> voters]),
        {"deadline_ts", "turn_remaining", "grace_deadline_ts"})

\* _pause_turn_if_current had it kept the whole turn for the speaker
PausedStateFullTurn(state) ==
    Merge(state,
          [phase |-> "paused",
           turn_remaining |-> Get(state, "turn_duration", 30),
           grace_deadline_ts |-> now + Get(state, "turn_grace", 60)])

\* new_state of _pause_turn_if_current
PausedState(state) ==
    Merge(state,
          [phase |-> "paused",
           turn_remaining |->
               IF state.deadline_ts - now > 0 THEN state.deadline_ts - now ELSE 0,
           grace_deadline_ts |-> now + Get(state, "turn_grace", 60)])

\* _resume_turn_if_current had it kept the deadline of before the pause
ResumedStateOldDeadline(state) ==
    Pop(Merge(state, [phase |-> "active"]),
        {"grace_deadline_ts", "turn_remaining"})

\* new_state of _resume_turn_if_current
ResumedState(state) ==
    Pop(Merge(state,
              [phase |-> "active",
               deadline_ts |-> now + Get(state, "turn_remaining", 0)]),
        {"grace_deadline_ts", "turn_remaining"})

\* _parse_voters
ParseVoters(state) == Get(state, "voters", <<>>)

\* _tally_votes had it counted every recorded vote
TallyVotesAll(vs, voters) ==
    [t \in {vs[v] : v \in DOMAIN vs} |->
        Cardinality({v \in DOMAIN vs : vs[v] = t})]

\* _tally_votes: target -> number of valid votes for it
TallyVotes(vs, voters) ==
    LET valid == {v \in DOMAIN vs :
                    v \in Range(voters) /\ vs[v] \in Range(voters) \cup {Skip}}
    IN  [t \in {vs[v] : v \in valid} |->
            Cardinality({v \in valid : vs[v] = t})]

\* majority_needed had half of the voters been enough
MajorityNeededHalf(voters) == Len(voters) \div 2

\* majority_needed of _finalize_voting_locked
MajorityNeeded(voters) ==
    IF Len(voters) > 0 THEN Len(voters) \div 2 + 1 ELSE 0

\* the targets the loop of _finalize_voting_locked can stop at
Winners(tally, voters) ==
    {t \in DOMAIN tally :
        t \in Range(voters) /\ tally[t] >= MajorityNeeded(voters)}

\* _finalize_voting_locked had it named the winner the other way round
VotedOutResultSwapped(w, imp, word, tally, vs) ==
    [winner |-> IF w = imp THEN "impostor" ELSE "crew",
     reason |-> IF w = imp THEN "impostor_eliminated" ELSE "crew_eliminated",
     voted_out |-> w, impostor |-> imp, word |-> word,
     tally |-> tally, votes |-> vs]

\* result of _finalize_voting_locked when a winner was found
VotedOutResult(w, imp, word, tally, vs) ==
    [winner |-> IF w = imp THEN "crew" ELSE "impostor",
     reason |-> IF w = imp THEN "impostor_eliminated" ELSE "crew_eliminated",
     voted_out |-> w, impostor |-> imp, word |-> word,
     tally |-> tally, votes |-> vs]

NoMajorityResult(tally, vs) ==
    [winner |-> "none", reason |-> "no_majority", tally |-> tally, votes |-> vs]

\* the result of guess_word for the cleaned guess
GuessResult(imp, guess, word) ==
    LET correct == NormalizeGuess(guess) = NormalizeGuess(WordChars[word]) IN
    [winner |-> IF correct THEN "impostor" ELSE "crew",
     reason |-> IF correct THEN "impostor_guessed"
                ELSE "impostor_failed_guess",
     impostor |-> imp, guess |-> guess, word |-> word]

\* the payloads assign_roles sends, in the order of the sorted members
RolePayloads(imp, word, members) ==
    [i \in 1..Len(members) |->
        IF members[i] = imp THEN ImpostorNotice(members[i])
        ELSE CrewNotice(members[i], word)]

\* the roles assign_roles writes
AssignedRoles(imp) ==
    [c \in Conn |-> IF c \in conns
                    THEN (IF c = imp THEN "impostor" ELSE "crew")
                    ELSE role[c]]

\* ------------------------------------------------------------- start_game
\* the checks of start_game had the players been looked at before the host
StartGameCheckPlayersFirst(c) ==
    IF conns = {} \/ \E p \in conns : ~ready[p] THEN "Conflict"
    ELSE IF host # c THEN "Forbidden"
    ELSE "ok"

\* the checks of start_game on the lobby state it reads: the exception it
\* raises, or "ok"
StartGameCheck(c) ==
    IF host # c THEN "Forbidden"
    ELSE IF conns = {} \/ \E p \in conns : ~ready[p] THEN "Conflict"
    ELSE "ok"

\* a start_game that raises: nothing is written, armed or broadcast
StartGameFail(c) ==
    /\ UNCHANGED <<memVars, wordVars, gw, wireVars, turnStoreVars>>
    /\ calls < MaxCalls
    /\ calls' = calls + 1
    /\ StartGameCheck(c) # "ok"
    /\ out' = <<Err(StartGameCheck(c), "start_game")>>
    /\ UNCHANGED <<storeVars, rd, timers, lp, eg, sg, rc, now, hist>>

\* start_game up to set_game_state: the lobby check on get_lobby_state
StartGame1(c) ==
    /\ UNCHANGED <<memVars, wordVars, gw, wireVars, turnStoreVars>>
    /\ sg.pc = "idle"
    /\ calls < MaxCalls
    /\ calls' = calls + 1
    /\ StartGameCheck(c) = "ok"
    /\ game_state' = "in_progress"
    /\ sg' = [pc |-> "s2", players |-> conns]
    /\ out' = <<>>
    /\ hist' = [hist EXCEPT !.ended = FALSE]
    /\ UNCHANGED <<conns, ready, nick, role, host, secret_word,
                   impostor, turn_state, turn_order, votes, tokens, rd, used,
                   timers, lp, eg, rc, now>>

\* the rest of start_game: assign_roles, game_started, _start_rounds and
\* _start_round with _start_turn_timer
StartGame2 ==
    /\ UNCHANGED <<memVars, gw, wireVars, turnStoreVars>>
    /\ sg.pc = "s2"
    /\ sg' = Idle
    /\ word_history' = <<>>
    /\ IF conns = {}
       THEN /\ out' = <<>>
            /\ UNCHANGED <<role, secret_word, impostor, turn_state,
                           turn_order, timers, lp, turn_words>>
       ELSE \E word \in WORDS, imp \in conns, order \in Perms(sg.players) :
            /\ secret_word' = word
            /\ impostor' = imp
            /\ role' = AssignedRoles(imp)
            /\ turn_order' = order
            /\ turn_state' = StartRoundState(1, order, TurnDuration,
                                             TurnGrace, VoteDuration)
            /\ turn_words' = <<>>
            /\ out' = RolePayloads(imp, word, SortedSeq(conns)) \o
                       <<Ev("game_started", 0, 0), Ev("round_started", 1, 0),
                         Ev("turn_started", 1, 0)>>
            /\ lp' = CancelledLp(lp, timers, "turn")
            /\ timers' = Arm(timers, "turn")
    /\ hist' = HistAfter(IF conns = {}
                         THEN [hist EXCEPT !.ended = FALSE]
                         ELSE [hist EXCEPT !.ended = FALSE, !.turns = {},
                                           !.results = 0, !.outside = FALSE],
                         lp')
    /\ UNCHANGED <<conns, ready, nick, host, game_state, votes,
                   tokens, rd, used, eg, rc, now, calls>>

\* --------------------------------------------------------------- end_game
\* end_game up to the game_ended broadcast: store.end_game and list_conns
EndGameBegin(result) ==
    /\ game_state' = "ended"
    /\ out' = <<EvResult("game_ended", result)>>

\* the rest of end_game: set_ready for the members it listed, clear_roles,
\* clear_turn_state, clear_votes, cancel of the three timer tasks
EndGameFinish(listed) ==
    /\ ready' = [c \in Conn |-> IF c \in listed THEN FALSE ELSE ready[c]]
    /\ role' = [c \in Conn |-> IF c \in conns THEN NoRole ELSE role[c]]
    /\ secret_word' = NoWord
    /\ impostor' = NoConn
    /\ turn_state' = NoState
    /\ turn_order' = <<>>
    /\ votes' = EmptyMap
    /\ turn_words' = <<>>
    /\ word_history' = <<>>
    /\ timers' = NoTimers

\* POST /rooms/{room_id}/end
EndGame1 ==
    /\ UNCHANGED <<memVars, wordVars, gw, wireVars, turnStoreVars>>
    /\ eg.pc = "idle"
    /\ calls < MaxCalls
    /\ calls' = calls + 1
    /\ EndGameBegin([reason |-> "win_condition"])
    /\ eg' = [pc |-> "e2", listed |-> conns]
    /\ UNCHANGED <<conns, ready, nick, role, host, secret_word, impostor,
                   turn_state, turn_order, votes, tokens, rd, used, timers, lp,
                   sg, rc, now, hist>>

\* the exception guess_word raises for the impostor and the word it has
\* read, or "ok"
GuessWordError(imp, c, word, guess) ==
    IF imp = NoConn THEN "Conflict"
    ELSE IF imp # c THEN "Forbidden"
    ELSE IF word = NoWord THEN "Conflict"
    ELSE IF Strip(guess) = <<>> THEN "Conflict"
    ELSE "ok"

\* a guess_word that raises, its two reads answered one after the other
GuessWordFail(c, guess) ==
    /\ UNCHANGED <<memVars, wordVars, gw, wireVars, turnStoreVars>>
    /\ calls < MaxCalls
    /\ calls' = calls + 1
    /\ GuessWordError(impostor, c, secret_word, guess) # "ok"
    /\ out' = <<Err(GuessWordError(impostor, c, secret_word, guess),
                    "guess_word")>>
    /\ UNCHANGED <<storeVars, rd, timers, lp, eg, sg, rc, now, hist>>

\* guess_word up to get_secret_word: get_impostor has answered `c`
GuessWordRead(c, guess) ==
    /\ UNCHANGED <<memVars, wordVars, wireVars, turnStoreVars>>
    /\ gw.pc = "idle"
    /\ impostor = c
    /\ gw' = [pc |-> "word", impostor |-> c, guess |-> guess]
    /\ out' = <<>>
    /\ UNCHANGED <<storeVars, rd, timers, lp, eg, sg, rc, now, calls, hist>>

\* the rest of that guess_word: get_secret_word, the guess, the result and
\* end_game up to its broadcast
GuessWordLate ==
    /\ UNCHANGED <<memVars, wordVars, wireVars, turnStoreVars>>
    /\ gw.pc = "word"
    /\ gw' = Idle
    /\ LET e == GuessWordError(gw.impostor, gw.impostor, secret_word,
                               gw.guess)
       IN
       IF e # "ok"
       THEN /\ out' = <<Err(e, "guess_word")>>
            /\ UNCHANGED <<game_state, eg>>
       ELSE /\ eg.pc = "idle"
            /\ EndGameBegin(GuessResult(gw.impostor, Strip(gw.guess),
                                        secret_word))
            /\ eg' = [pc |-> "e2", listed |-> conns]
    /\ UNCHANGED <<conns, ready, nick, role, host, secret_word, impostor,
                   turn_state, turn_order, votes, tokens, rd, used, timers, lp,
                   sg, rc, now, calls, hist>>

\* guess_word: the checks, the result and end_game up to its broadcast, its
\* two reads answered one after the other
GuessWord(c, guess) ==
    /\ UNCHANGED <<memVars, wordVars, gw, wireVars, turnStoreVars>>
    /\ eg.pc = "idle"
    /\ calls < MaxCalls
    /\ calls' = calls + 1
    /\ GuessWordError(impostor, c, secret_word, guess) = "ok"
    /\ EndGameBegin(GuessResult(impostor, Strip(guess), secret_word))
    /\ eg' = [pc |-> "e2", listed |-> conns]
    /\ UNCHANGED <<conns, ready, nick, role, host, secret_word, impostor,
                   turn_state, turn_order, votes, tokens, rd, used, timers, lp,
                   sg, rc, now, hist>>

EndGame2 ==
    /\ UNCHANGED <<memVars, gw, wireVars, turnStoreVars>>
    /\ eg.pc = "e2"
    /\ EndGameFinish(eg.listed)
    /\ out' = <<[type |-> "lobby_state"]>>
    /\ eg' = Idle
    /\ lp' = IF lp.pc # "idle" /\ lp.task # "none" /\ lp.reg THEN Idle ELSE lp
    /\ hist' = HistAfter([hist EXCEPT !.ended = TRUE, !.turns = {},
                                      !.results = 0, !.outside = TRUE], lp')
    /\ UNCHANGED <<conns, nick, host, game_state, tokens, rd, used, sg,
                   rc, now, calls>>

\* ------------------------------------------------- handlers under the lock
\* the lock holder's locals: the state it read, the timer task it runs in
\* (or none) and whether that task is still the one in the task dict
Holder(pc, st, task, reg) == [pc |-> pc, st |-> st, task |-> task, reg |-> reg]

\* the timer dicts once the task running the holder has returned
Release(tm, l) == IF l.task # "none" /\ l.reg THEN Cancel(tm, l.task) ELSE tm

\* the turn_ended payload had it reported the turn that comes next
TurnEndedOfNext(st, reason) ==
    [type |-> "turn_ended", round |-> st.round,
     turn_index |-> st.turn_index + 1,
     conn |-> Get(st, "current_conn_id", NoConn), reason |-> reason]

\* the turn_ended payload of _advance_turn_locked
TurnEnded(st, reason) ==
    [type |-> "turn_ended", round |-> st.round, turn_index |-> st.turn_index,
     conn |-> Get(st, "current_conn_id", NoConn), reason |-> reason]

\* the turn a sequence of payloads reports as ended
LastEnded(o) ==
    IF \E i \in 1..Len(o) : o[i].type = "turn_ended"
    THEN LET i == CHOOSE i \in 1..Len(o) : o[i].type = "turn_ended"
         IN  <<o[i].round, o[i].turn_index>>
    ELSE NoTurn

\* _advance_turn_locked up to its turn_ended broadcast, entered with the
\* state `st` read under the lock
AdvanceBegin(st, reason, task, pre) ==
    /\ lp' = Holder("adv2", st, task, task # "none")
    /\ out' = pre \o <<TurnEnded(st, reason)>>
    /\ hist' = [hist EXCEPT !.last_ended = LastEnded(out'),
                            !.turns = @ \cup {LastEnded(out')}]

\* the checks of submit_turn_word (with a non-empty word) on the state it
\* reads under the lock: the exception it raises, or "ok"
SubmitTurnWordCheck(c) ==
    LET st == GetTurnStateForPhase("active") IN
    IF st = NoState THEN "Conflict"
    ELSE IF ~IsCurrentConn(st, c) THEN "Forbidden"
    ELSE "ok"

\* the entry submit_turn_word appends to TurnWords and WordHistory
WordEntry(st, c, cleaned_word) ==
    [word |-> cleaned_word, conn |-> c, round |-> st.round,
     turn_index |-> st.turn_index]

\* submit_turn_word up to the turn_ended broadcast
SubmitTurnWord(c, word) ==
    /\ UNCHANGED <<memVars, gw, wireVars, turnStoreVars>>
    /\ Len(word_history) < MaxWords
    /\ Strip(word) # <<>>
    /\ lp.pc = "idle"
    /\ SubmitTurnWordCheck(c) = "ok"
    /\ LET st == GetTurnStateForPhase("active")
           entry == WordEntry(st, c, Strip(word))
       IN
       /\ turn_words' = Append(turn_words, entry)
       /\ word_history' = Append(word_history, entry)
       /\ AdvanceBegin(st, "spoken", "none",
                       <<[type |-> "turn_word_submitted"] @@ entry>>)
    /\ UNCHANGED <<storeVars, rd, timers, eg, sg, rc, now, calls>>

\* the exception of a submit_turn_word call had it looked at the word under
\* the lock, after the turn state
SubmitTurnWordErrorLockFirst(c, word) ==
    IF SubmitTurnWordCheck(c) # "ok" THEN SubmitTurnWordCheck(c)
    ELSE IF Strip(word) = <<>> THEN "Conflict" ELSE "ok"

\* the exception a submit_turn_word call raises: the empty word before it
\* takes the lock, the others on the state it reads under the lock
SubmitTurnWordError(c, word) ==
    IF Strip(word) = <<>> THEN "Conflict" ELSE SubmitTurnWordCheck(c)

\* a submit_turn_word call that raises
SubmitTurnWordFail(c, word) ==
    /\ UNCHANGED <<memVars, wordVars, gw, wireVars, turnStoreVars>>
    /\ calls < MaxCalls
    /\ calls' = calls + 1
    /\ Strip(word) # <<>> => lp.pc = "idle"
    /\ SubmitTurnWordError(c, word) # "ok"
    /\ out' = <<Err(SubmitTurnWordError(c, word), "submit_turn_word")>>
    /\ UNCHANGED <<storeVars, rd, timers, lp, eg, sg, rc, now, hist>>

\* handle_turn_message up to the turn_ended broadcast
HandleTurnMessage(c) ==
    /\ UNCHANGED <<memVars, wordVars, gw, wireVars, turnStoreVars>>
    /\ lp.pc = "idle"
    /\ LET st == GetTurnStateForPhase("active") IN
       /\ st # NoState
       /\ IsCurrentConn(st, c)
       /\ AdvanceBegin(st, "spoken", "none", <<>>)
    /\ UNCHANGED <<storeVars, rd, timers, eg, sg, rc, now, calls>>

\* _run_turn_timer with remaining <= 0: _advance_turn(TIMEOUT)
TurnTimerFire ==
    /\ UNCHANGED <<memVars, wordVars, gw, wireVars, turnStoreVars>>
    /\ timers.turn = "armed"
    /\ lp.pc = "idle"
    /\ LET st == GetTurnStateForPhase("active") IN
       /\ st # NoState
       /\ st.deadline_ts - now <= 0
       /\ AdvanceBegin(st, "timeout", "turn", <<>>)
    /\ UNCHANGED <<storeVars, rd, timers, eg, sg, rc, now, calls>>

\* _run_grace_timer with remaining <= 0
GraceTimerFire ==
    /\ UNCHANGED <<memVars, wordVars, gw, wireVars, turnStoreVars>>
    /\ timers.grace = "armed"
    /\ lp.pc = "idle"
    /\ LET st == GetTurnStateForPhase("paused") IN
       /\ st # NoState
       /\ "grace_deadline_ts" \in DOMAIN st
       /\ st.grace_deadline_ts - now <= 0
       /\ AdvanceBegin(st, "skipped", "grace", <<>>)
    /\ UNCHANGED <<storeVars, rd, timers, eg, sg, rc, now, calls>>

\* the phase a timer task of each kind looks for
TimerPhase(kind) ==
    CASE kind = "turn" -> "active"
      [] kind = "grace" -> "paused"
      [] kind = "voting" -> "voting"

\* a timer task whose loop reads a state of another phase returns
TimerExit(kind) ==
    /\ UNCHANGED <<memVars, wordVars, gw, wireVars, turnStoreVars>>
    /\ timers[kind] = "armed"
    /\ ~(lp.pc # "idle" /\ lp.task = kind /\ lp.reg)
    /\ GetTurnStateForPhase(TimerPhase(kind)) = NoState
    /\ timers' = Cancel(timers, kind)
    /\ out' = <<>>
    /\ UNCHANGED <<storeVars, rd, lp, eg, sg, rc, now, calls, hist>>

\* _start_voting had it gone on with no voters
NoVotersNever(cs) == FALSE

\* `if not voters: return` of _start_voting
NoVoters(cs) == cs = {}

\* _advance_turn_locked after turn_ended: get_turn_order, then either the
\* next turn (set_turn_state, turn_started, _start_turn_timer) or
\* _start_voting up to its set_turn_state
Advance2 ==
    /\ UNCHANGED <<memVars, wordVars, gw, wireVars, turnStoreVars>>
    /\ lp.pc = "adv2"
    /\ LET st == lp.st
           next_index == st.turn_index + 1
       IN
       IF next_index >= Len(turn_order)
       THEN IF NoVoters(conns)
            THEN /\ lp' = Idle
                 /\ timers' = Release(timers, lp)
                 /\ out' = <<>>
                 /\ hist' = HistAfter(hist, lp')
                 /\ UNCHANGED turn_state
            ELSE /\ turn_state' = VotingState(st, SortedSeq(conns))
                 /\ lp' = [lp EXCEPT !.pc = "sv2"]
                 /\ out' = <<>>
                 /\ UNCHANGED hist
                 /\ UNCHANGED timers
       ELSE /\ turn_state' = NextTurnState(st, turn_order)
            /\ out' = <<Ev("turn_started", st.round, next_index)>>
            /\ timers' = Arm(Release(timers, lp), "turn")
            /\ lp' = Idle
            /\ hist' = HistAfter(hist, lp')
    /\ UNCHANGED <<conns, ready, nick, role, host, game_state,
                   secret_word, impostor, turn_order, votes, tokens, rd, used,
                   eg, sg, rc, now, calls>>

\* the rest of _start_voting: clear_votes, round_ended, voting_started,
\* cancel of the turn and grace tasks, _start_voting_timer
StartVoting2 ==
    /\ UNCHANGED <<memVars, wordVars, gw, wireVars, turnStoreVars>>
    /\ lp.pc = "sv2"
    /\ votes' = EmptyMap
    /\ out' = <<Ev("round_ended", lp.st.round, 0),
                Ev("voting_started", lp.st.round, 0)>>
    /\ timers' = [turn |-> "none", grace |-> "none", voting |-> "armed"]
    /\ lp' = Idle
    /\ hist' = HistAfter([hist EXCEPT !.results = 0], lp')
    /\ UNCHANGED <<conns, ready, nick, role, host, game_state,
                   secret_word, impostor, turn_state, turn_order, tokens, rd,
                   used, eg, sg, rc, now, calls>>

\* handle_disconnect -> _pause_turn_if_current up to its set_turn_state
PauseTurn1(c) ==
    /\ UNCHANGED <<memVars, wordVars, gw, wireVars, turnStoreVars>>
    /\ lp.pc = "idle"
    /\ LET st == GetTurnStateForPhase("active") IN
       /\ st # NoState
       /\ IsCurrentConn(st, c)
       /\ lp' = [pc |-> "pause2", st |-> st, new |-> PausedState(st),
                 task |-> "none", reg |-> FALSE]
    /\ out' = <<>>
    /\ UNCHANGED <<storeVars, rd, timers, eg, sg, rc, now, calls, hist>>

\* the rest of _pause_turn_if_current
PauseTurn2 ==
    /\ UNCHANGED <<memVars, wordVars, gw, wireVars, turnStoreVars>>
    /\ lp.pc = "pause2"
    /\ turn_state' = lp.new
    /\ out' = <<Ev("turn_paused", lp.st.round, lp.st.turn_index)>>
    /\ timers' = Arm(Cancel(timers, "turn"), "grace")
    /\ lp' = Idle
    /\ UNCHANGED <<conns, ready, nick, role, host, game_state,
                   secret_word, impostor, turn_order, votes, tokens, rd, used,
                   eg, sg, rc, now, calls, hist>>

\* handle_reconnect -> _resume_turn_if_current up to its set_turn_state (or,
\* with no time left, up to the turn_ended of _advance_turn_locked)
ResumeTurn1 ==
    /\ UNCHANGED <<memVars, wordVars, gw, wireVars, turnStoreVars>>
    /\ rc # NoConn
    /\ lp.pc = "idle"
    /\ rc' = NoConn
    /\ LET st == GetTurnStateForPhase("paused") IN
       IF st = NoState \/ ~IsCurrentConn(st, rc)
       THEN /\ out' = <<>>
            /\ UNCHANGED <<lp, hist>>
       ELSE IF Get(st, "turn_remaining", 0) <= 0
       THEN AdvanceBegin(st, "skipped", "none", <<>>)
       ELSE /\ lp' = [pc |-> "resume2", st |-> st, new |-> ResumedState(st),
                      task |-> "none", reg |-> FALSE]
            /\ out' = <<>>
            /\ UNCHANGED hist
    /\ UNCHANGED <<storeVars, rd, timers, eg, sg, now, calls>>

\* the rest of _resume_turn_if_current
ResumeTurn2 ==
    /\ UNCHANGED <<memVars, wordVars, gw, wireVars, turnStoreVars>>
    /\ lp.pc = "resume2"
    /\ turn_state' = lp.new
    /\ out' = <<Ev("turn_resumed", lp.st.round, lp.st.turn_index)>>
    /\ timers' = Arm(Cancel(timers, "grace"), "turn")
    /\ lp' = Idle
    /\ UNCHANGED <<conns, ready, nick, role, host, game_state,
                   secret_word, impostor, turn_order, votes, tokens, rd, used,
                   eg, sg, rc, now, calls, hist>>

\* ----------------------------------------------------------------- voting
\* cast_vote had it not looked at the votes it read
MayVoteAgain(vs, voter) == TRUE

\* the check of cast_vote on the votes it read: may `voter` still vote
MayVote(vs, voter) == voter \notin DOMAIN vs

\* set_vote: hset of one field of the votes hash
SetVote(vs, voter, target) ==
    [v \in DOMAIN vs \cup {voter} |-> IF v = voter THEN target ELSE vs[v]]

\* the first statement of _finalize_voting_locked: the voting task is taken
\* out of the dict, and cancelled unless it is the task that finalizes;
\* `late` when cast_vote finalizes before it raises "voting has ended"
FinalizeBegin(st, task, late) ==
    /\ lp' = [pc |-> "fin1", st |-> st, task |-> task, reg |-> FALSE,
              late |-> late]
    /\ timers' = Cancel(timers, "voting")

\* the checks of cast_vote on the state it reads under the lock: the
\* exception it raises before get_votes, "closed" past the deadline, or "ok"
CastVoteCheck(voter, target) ==
    LET st == GetTurnStateForPhase("voting")
        voters == ParseVoters(st)
    IN
    IF st = NoState THEN "Conflict"
    ELSE IF "vote_deadline_ts" \in DOMAIN st /\ now >= st.vote_deadline_ts
    THEN "closed"
    ELSE IF voter \notin Range(voters) THEN "Forbidden"
    ELSE IF target # Skip /\ target \notin Range(voters) THEN "Conflict"
    ELSE "ok"

\* cast_vote up to get_votes, or past the deadline up to the get_votes of
\* _finalize_voting_locked; a call that raises at once changes nothing
CastVote1(voter, target) ==
    /\ UNCHANGED <<memVars, wordVars, gw, wireVars, turnStoreVars>>
    /\ lp.pc = "idle"
    /\ LET st == GetTurnStateForPhase("voting") IN
       \/ /\ CastVoteCheck(voter, target) = "closed"
          /\ FinalizeBegin(st, "none", TRUE)
       \/ /\ CastVoteCheck(voter, target) = "ok"
          /\ lp' = [pc |-> "vote2", st |-> st, voter |-> voter,
                    target |-> target, task |-> "none", reg |-> FALSE]
          /\ UNCHANGED timers
    /\ out' = <<>>
    /\ UNCHANGED <<storeVars, rd, eg, sg, rc, now, calls, hist>>

\* the rest of cast_vote: get_votes, the already-voted check, set_vote, the
\* vote_cast broadcast and, when all voters have voted, the call of
\* _finalize_voting_locked
CastVote2 ==
    /\ UNCHANGED <<memVars, wordVars, gw, wireVars, turnStoreVars>>
    /\ lp.pc = "vote2"
    /\ LET voters == ParseVoters(lp.st) IN
       IF ~MayVote(votes, lp.voter)
       THEN /\ out' = <<Err("Conflict", "cast_vote")>>
            /\ lp' = Idle
            /\ UNCHANGED <<votes, timers>>
       ELSE /\ votes' = SetVote(votes, lp.voter, lp.target)
            /\ out' = <<[type |-> "vote_cast", round |-> lp.st.round,
                         voter |-> lp.voter, target |-> lp.target]>>
            /\ IF Len(voters) > 0 /\ Cardinality(DOMAIN votes') >= Len(voters)
               THEN FinalizeBegin(lp.st, "none", FALSE)
               ELSE /\ lp' = Idle
                    /\ UNCHANGED timers
    /\ UNCHANGED <<conns, ready, nick, role, host, game_state,
                   secret_word, impostor, turn_state, turn_order, tokens, rd,
                   used, eg, sg, rc, now, calls, hist>>

\* _run_voting_timer with remaining <= 0
VotingTimerFire ==
    /\ UNCHANGED <<memVars, wordVars, gw, wireVars, turnStoreVars>>
    /\ timers.voting = "armed"
    /\ lp.pc = "idle"
    /\ LET st == GetTurnStateForPhase("voting") IN
       /\ st # NoState
       /\ "vote_deadline_ts" \in DOMAIN st
       /\ st.vote_deadline_ts - now <= 0
       /\ FinalizeBegin(st, "voting", FALSE)
    /\ out' = <<>>
    /\ UNCHANGED <<storeVars, rd, eg, sg, rc, now, calls, hist>>

\* cast_vote had it returned normally after a finalization past the deadline
LateErrorNever(l) == <<>>

\* what cast_vote raises once the finalization it started has returned
LateError(l) == IF l.late THEN <<Err("Conflict", "cast_vote")>> ELSE <<>>

\* _finalize_voting_locked from get_votes: the tally and the winner; without
\* a winner up to the voting_result broadcast, with one up to get_impostor
Finalize1 ==
    /\ UNCHANGED <<memVars, wordVars, gw, wireVars, turnStoreVars>>
    /\ lp.pc = "fin1"
    /\ LET voters == ParseVoters(lp.st)
           tally == TallyVotes(votes, voters)
           ws == Winners(tally, voters)
       IN
       IF ws # {}
       THEN \E w \in ws :
            /\ lp' = [lp EXCEPT !.pc = "finw"] @@
                     [winner |-> w, tally |-> tally, votes |-> votes]
            /\ out' = <<>>
            /\ UNCHANGED hist
       ELSE LET result == NoMajorityResult(tally, votes)
            IN /\ lp' = [lp EXCEPT !.pc = "fin2"] @@
                        [winner |-> NoConn, result |-> result]
               /\ out' = <<[type |-> "voting_result", round |-> lp.st.round,
                            result |-> result]>>
               /\ hist' = ResultCounted(hist)
    /\ UNCHANGED <<storeVars, rd, timers, eg, sg, rc, now, calls>>

\* _finalize_voting_locked with a winner: get_impostor, get_secret_word, the
\* result and its voting_result broadcast
FinalizeWinner ==
    /\ UNCHANGED <<memVars, wordVars, gw, wireVars, turnStoreVars>>
    /\ lp.pc = "finw"
    /\ LET result == VotedOutResult(lp.winner, impostor, secret_word,
                                    lp.tally, lp.votes)
       IN /\ lp' = [pc |-> "fin2", st |-> lp.st, task |-> lp.task,
                    reg |-> lp.reg, late |-> lp.late, winner |-> lp.winner,
                    result |-> result]
          /\ out' = <<[type |-> "voting_result", round |-> lp.st.round,
                       result |-> result]>>
    /\ hist' = ResultCounted(hist)
    /\ UNCHANGED <<storeVars, rd, timers, eg, sg, rc, now, calls>>

\* _finalize_voting_locked after voting_result, with a winner: end_game up
\* to its game_ended broadcast
FinalizeEnd1 ==
    /\ UNCHANGED <<memVars, wordVars, gw, wireVars, turnStoreVars>>
    /\ lp.pc = "fin2"
    /\ lp.winner # NoConn
    /\ EndGameBegin(lp.result)
    /\ lp' = [lp EXCEPT !.pc = "fin3"] @@ [listed |-> conns]
    /\ UNCHANGED <<conns, ready, nick, role, host, secret_word, impostor,
                   turn_state, turn_order, votes, tokens, rd, used, timers, eg,
                   sg, rc, now, calls, hist>>

\* the rest of that end_game
FinalizeEnd2 ==
    /\ UNCHANGED <<memVars, gw, wireVars, turnStoreVars>>
    /\ lp.pc = "fin3"
    /\ EndGameFinish(lp.listed)
    /\ out' = <<[type |-> "lobby_state"]>> \o LateError(lp)
    /\ lp' = Idle
    /\ hist' = [hist EXCEPT !.ended = TRUE, !.turns = {}, !.results = 0]
    /\ UNCHANGED <<conns, nick, host, game_state, tokens, rd, used, eg,
                   sg, rc, now, calls>>

\* _finalize_voting_locked after voting_result, without a winner:
\* clear_votes and _start_next_round (get_turn_order, _start_round)
FinalizeNextRound ==
    /\ UNCHANGED <<memVars, gw, wireVars, turnStoreVars>>
    /\ lp.pc = "fin2"
    /\ lp.winner = NoConn
    /\ lp.st.round < MaxRound
    /\ votes' = EmptyMap
    /\ lp' = Idle
    /\ IF turn_order = <<>>
       THEN /\ out' = LateError(lp)
            /\ UNCHANGED <<turn_state, timers, turn_words>>
       ELSE /\ turn_state' =
                StartRoundState(lp.st.round + 1, turn_order,
                                Get(lp.st, "turn_duration", 30),
                                Get(lp.st, "turn_grace", 60),
                                Get(lp.st, "vote_duration", 60))
            /\ out' = <<Ev("round_started", lp.st.round + 1, 0),
                        Ev("turn_started", lp.st.round + 1, 0)>> \o LateError(lp)
            /\ timers' = Arm(timers, "turn")
            /\ turn_words' = <<>>
    /\ UNCHANGED word_history
    /\ UNCHANGED <<conns, ready, nick, role, host, game_state,
                   secret_word, impostor, turn_order, tokens, rd, used, eg, sg,
                   rc, now, calls, hist>>

\* ------------------------------------------------------------------- time
Tick ==
    /\ UNCHANGED <<memVars, wordVars, gw, wireVars, turnStoreVars>>
    /\ now < MaxNow
    /\ now' = now + 1
    /\ out' = <<>>
    /\ UNCHANGED <<storeVars, rd, timers, lp, eg, sg, rc, calls, hist>>

\* ------------------------------------- membership, command by command
\* join_room and leave_room of a room whose calls overlap: a step is the
\* code a call runs from the answer of one Redis command to the execution
\* of its next one.

\* no membership call is under way
Quiet == \A m \in Member : mcall[m].pc = "idle"

OpAt(m, pc) == [mcall EXCEPT ![m] = [pc |-> pc, remaining |-> {}]]

\* _room_conns_cache.setdefault(room_id, set()).add(conn_id)
CacheAdded(m) == [has |-> TRUE, set |-> cache.set \cup {m}]

\* remove_conn on the cache: discard, and pop of an entry that became empty
CacheDiscarded(m) ==
    IF ~cache.has THEN cache
    ELSE IF cache.set \ {m} = {} THEN NoCache
    ELSE [has |-> TRUE, set |-> cache.set \ {m}]

\* list_conns: the cached set when there is one, else smembers
Listed == IF cache.has THEN cache.set ELSE sconns

\* the cache after list_conns
CacheAfterList == [has |-> TRUE, set |-> Listed]

\* the host key after `if remaining: set(host_key, sorted(remaining)[0])`
HostFrom(remaining) == IF remaining # {} THEN Min(remaining) ELSE shost

\* join_room -> add_conn: sadd
AddConnSadd(m) ==
    /\ mcall[m].pc = "idle"
    /\ m \notin sconns
    /\ sconns' = sconns \cup {m}
    /\ mcall' = OpAt(m, "hset")
    /\ out' = <<>>
    /\ UNCHANGED <<shost, shash, cache, gameVars, wireVars, turnStoreVars>>

\* add_conn: the cache entry, then hset of the conn hash
AddConnHset(m) ==
    /\ mcall[m].pc = "hset"
    /\ cache' = CacheAdded(m)
    /\ shash' = shash \cup {m}
    /\ mcall' = OpAt(m, "setnx")
    /\ out' = <<>>
    /\ UNCHANGED <<sconns, shost, gameVars, wireVars, turnStoreVars>>

\* add_conn: setnx of the host key
AddConnSetnx(m) ==
    /\ mcall[m].pc = "setnx"
    /\ shost' = IF shost = NoMember THEN m ELSE shost
    /\ mcall' = OpAt(m, "joined")
    /\ out' = <<>>
    /\ UNCHANGED <<sconns, shash, cache, gameVars, wireVars, turnStoreVars>>

\* the rest of join_room: list_conns and the return of the members
JoinRoomReturn(m) ==
    /\ mcall[m].pc = "joined"
    /\ cache' = CacheAfterList
    /\ out' = <<[type |-> "members", conns |-> Listed]>>
    /\ mcall' = OpAt(m, "idle")
    /\ UNCHANGED <<sconns, shost, shash, gameVars, wireVars, turnStoreVars>>

\* leave_room -> remove_conn: srem
RemoveConnSrem(m) ==
    /\ mcall[m].pc = "idle"
    /\ m \in sconns
    /\ sconns' = sconns \ {m}
    /\ mcall' = OpAt(m, "del")
    /\ out' = <<>>
    /\ UNCHANGED <<shost, shash, cache, gameVars, wireVars, turnStoreVars>>

\* remove_conn: the cache entry, then delete of the conn hash
RemoveConnDelete(m) ==
    /\ mcall[m].pc = "del"
    /\ cache' = CacheDiscarded(m)
    /\ shash' = shash \ {m}
    /\ mcall' = OpAt(m, "get")
    /\ out' = <<>>
    /\ UNCHANGED <<sconns, shost, gameVars, wireVars, turnStoreVars>>

\* remove_conn: get of the host key; a caller who is not the host returns
RemoveConnGetHost(m) ==
    /\ mcall[m].pc = "get"
    /\ mcall' = OpAt(m, IF shost = m THEN "delhost" ELSE "idle")
    /\ out' = <<>>
    /\ UNCHANGED <<sconns, shost, shash, cache, gameVars, wireVars, turnStoreVars>>

\* remove_conn: delete of the host key
RemoveConnDeleteHost(m) ==
    /\ mcall[m].pc = "delhost"
    /\ shost' = NoMember
    /\ mcall' = OpAt(m, "list")
    /\ out' = <<>>
    /\ UNCHANGED <<sconns, shash, cache, gameVars, wireVars, turnStoreVars>>

\* remove_conn: list_conns; from the cache it does not wait and the set of
\* the new host follows at once, else smembers is the next command
RemoveConnList(m) ==
    /\ mcall[m].pc = "list"
    /\ IF cache.has
       THEN /\ shost' = HostFrom(cache.set)
            /\ mcall' = OpAt(m, "idle")
       ELSE /\ mcall' = [mcall EXCEPT ![m] = [pc |-> "set", remaining |-> sconns]]
            /\ UNCHANGED shost
    /\ out' = <<>>
    /\ UNCHANGED <<sconns, shash, cache, gameVars, wireVars, turnStoreVars>>

\* remove_conn after smembers: list_conns stores what it read in the cache
\* and the new host is set
RemoveConnSetHost(m) ==
    /\ mcall[m].pc = "set"
    /\ cache' = [has |-> TRUE, set |-> mcall[m].remaining]
    /\ shost' = HostFrom(mcall[m].remaining)
    /\ mcall' = OpAt(m, "idle")
    /\ out' = <<>>
    /\ UNCHANGED <<sconns, shash, gameVars, wireVars, turnStoreVars>>

\* list_conns called on its own (get_lobby_state)
ListConns ==
    /\ cache' = CacheAfterList
    /\ out' = <<[type |-> "members", conns |-> Listed]>>
    /\ UNCHANGED <<sconns, shost, shash, mcall, gameVars, wireVars, turnStoreVars>>

\* the engine process is restarted between two calls: a new RedisRoomStore
\* with an empty cache over the same Redis
Restart ==
    /\ Quiet
    /\ cache.has
    /\ cache' = NoCache
    /\ out' = <<>>
    /\ UNCHANGED <<sconns, shost, shash, mcall, gameVars, wireVars, turnStoreVars>>

StoreNext ==
    \/ \E m \in Member : AddConnSadd(m)
    \/ \E m \in Member : AddConnHset(m)
    \/ \E m \in Member : AddConnSetnx(m)
    \/ \E m \in Member : JoinRoomReturn(m)
    \/ \E m \in Member : RemoveConnSrem(m)
    \/ \E m \in Member : RemoveConnDelete(m)
    \/ \E m \in Member : RemoveConnGetHost(m)
    \/ \E m \in Member : RemoveConnDeleteHost(m)
    \/ \E m \in Member : RemoveConnList(m)
    \/ \E m \in Member : RemoveConnSetHost(m)
    \/ ListConns

StoreSpec == Init /\ [][StoreNext]_vars

\* the same calls made one after the other, by an engine process that may
\* be restarted between two of them
SeqStoreNext ==
    \/ \E m \in Member : Quiet /\ AddConnSadd(m)
    \/ \E m \in Member : AddConnHset(m)
    \/ \E m \in Member : AddConnSetnx(m)
    \/ \E m \in Member : JoinRoomReturn(m)
    \/ \E m \in Member : Quiet /\ RemoveConnSrem(m)
    \/ \E m \in Member : RemoveConnDelete(m)
    \/ \E m \in Member : RemoveConnGetHost(m)
    \/ \E m \in Member : RemoveConnDeleteHost(m)
    \/ \E m \in Member : RemoveConnList(m)
    \/ \E m \in Member : RemoveConnSetHost(m)
    \/ Quiet /\ ListConns
    \/ Restart

SeqStoreSpec == Init /\ [][SeqStoreNext]_vars

\* ------------------------------------------------------------------- Next
Next ==
    \/ \E c \in Conn : JoinRoom(c, NoNick)
    \/ \E c \in Conn : LeaveRoom(c)
    \/ \E c \in Conn : SetReady(c, TRUE)
    \/ \E c \in Conn : RoomDisconnect(c)
    \/ \E t \in tokens : RoomReconnect(t)
    \/ \E c \in Conn : StartGameFail(c)
    \/ \E c \in Conn : StartGame1(c)
    \/ StartGame2
    \/ EndGame1
    \/ \E c \in Conn, g \in Guesses : GuessWord(c, g)
    \/ EndGame2
    \/ \E c \in Conn : HandleTurnMessage(c)
    \/ TurnTimerFire
    \/ GraceTimerFire
    \/ \E k \in {"turn", "grace", "voting"} : TimerExit(k)
    \/ Advance2
    \/ StartVoting2
    \/ \E c \in Conn : PauseTurn1(c)
    \/ PauseTurn2
    \/ ResumeTurn1
    \/ ResumeTurn2
    \/ \E v \in Conn, t \in Conn \cup {Skip} : CastVote1(v, t)
    \/ CastVote2
    \/ VotingTimerFire
    \/ Finalize1
    \/ FinalizeWinner
    \/ FinalizeEnd1
    \/ FinalizeEnd2
    \/ FinalizeNextRound
    \/ Tick

Spec == Init /\ [][Next]_vars

\* ------------------------------------------------------------ the lobby
\* The room before a game: the RoomService operations with every nickname
\* and ready value, peek_resume_token, and reconnects whose
\* consume_resume_token calls overlap.
LobbyNext ==
    \/ \E c \in Conn, n \in Nicks \cup {NoNick} : JoinRoom(c, n)
    \/ \E c \in Conn : LeaveRoom(c)
    \/ \E c \in Conn, b \in BOOLEAN : SetReady(c, b)
    \/ \E c \in Conn : RoomDisconnect(c)
    \/ \E t \in tokens : PeekResumeToken(t)
    \/ \E t \in tokens : ConsumeRead(t)
    \/ \E id \in 1..MaxCalls : ReconnectFail(id)
    \/ \E t \in tokens : RoomReconnect(t)
    \/ \E t \in DOMAIN rd : RoomReconnectLate(t)
    \/ ResumeTurn1

LobbySpec == Init /\ [][LobbyNext]_vars

\* -------------------------------------------------------------- WSManager
\* what an emitter broadcasts: the timer task its tick, the lock holder the
\* events of a transition
PayloadOf(e, n) ==
    [type |-> IF e = "timer" THEN "turn_timer" ELSE "turn_ended", seq |-> n]

\* notifier.broadcast(conns, payload) is called: the loop over the conn ids
\* list_conns returned, in the order it returned them, is entered
Broadcast(e, order) ==
    /\ bc[e] = NoBroadcast
    /\ Len(sent) < MaxPayloads
    /\ sent' = Append(sent, PayloadOf(e, Len(sent) + 1))
    /\ bc' = [bc EXCEPT ![e] = [rest |-> order,
                                payload |-> PayloadOf(e, Len(sent) + 1)]]
    /\ out' = <<>>
    /\ UNCHANGED <<attached, inbox, gameVars, memVars, turnStoreVars>>

\* one turn of that loop: send_to_conn awaits send_json for a conn id that
\* has a socket and does nothing for one that has none
SendToConn(e) ==
    /\ bc[e] # NoBroadcast
    /\ LET cid == Head(bc[e].rest) IN
       inbox' = IF cid \in attached
                THEN [inbox EXCEPT ![cid] = Append(@, bc[e].payload)]
                ELSE inbox
    /\ bc' = [bc EXCEPT ![e] = IF Len(bc[e].rest) = 1 THEN NoBroadcast
                               ELSE [@ EXCEPT !.rest = Tail(@)]]
    /\ out' = <<>>
    /\ UNCHANGED <<attached, sent, gameVars, memVars, turnStoreVars>>

\* WSManager.disconnect
WsDisconnect(c) ==
    /\ c \in attached
    /\ attached' = attached \ {c}
    /\ out' = <<>>
    /\ UNCHANGED <<sent, bc, inbox, gameVars, memVars, turnStoreVars>>

\* WSManager.connect
WsConnect(c) ==
    /\ c \notin attached
    /\ attached' = attached \cup {c}
    /\ out' = <<>>
    /\ UNCHANGED <<sent, bc, inbox, gameVars, memVars, turnStoreVars>>

WireNext ==
    \/ \E e \in Emitter, order \in Perms(Conn) : Broadcast(e, order)
    \/ \E e \in Emitter : SendToConn(e)
    \/ \E c \in Conn : WsDisconnect(c)
    \/ \E c \in Conn : WsConnect(c)

WireSpec == Init /\ [][WireNext]_vars

\* ------------------------------------------------------- the spoken words
\* A game whose members stay connected: every turn ends by a submitted
\* word or by its timer, and submit_turn_word and guess_word are called
\* with every input, the failing ones included.
WordNext ==
    \/ \E c \in Conn : JoinRoom(c, NoNick)
    \/ \E c \in Conn : SetReady(c, TRUE)
    \/ \E c \in Conn : StartGame1(c)
    \/ StartGame2
    \/ EndGame1
    \/ \E c \in Conn, g \in Guesses : GuessWord(c, g)
    \/ EndGame2
    \/ \E c \in Conn, w \in SpokenWords : SubmitTurnWord(c, w)
    \/ \E c \in Conn, w \in SpokenWords : SubmitTurnWordFail(c, w)
    \/ TurnTimerFire
    \/ \E k \in {"turn", "voting"} : TimerExit(k)
    \/ Advance2
    \/ StartVoting2
    \/ \E v \in Conn, t \in Conn \cup {Skip} : CastVote1(v, t)
    \/ CastVote2
    \/ VotingTimerFire
    \/ Finalize1
    \/ FinalizeWinner
    \/ FinalizeEnd1
    \/ FinalizeEnd2
    \/ FinalizeNextRound
    \/ Tick

WordSpec == Init /\ [][WordNext]_vars

\* ------------------------------------------------------------- the guess
\* A room whose games are started, guessed and ended: guess_word with
\* every guess and every caller, followed read by read.
GuessNext ==
    \/ \E c \in Conn : JoinRoom(c, NoNick)
    \/ \E c \in Conn : SetReady(c, TRUE)
    \/ \E c \in Conn : StartGame1(c)
    \/ StartGame2
    \/ EndGame1
    \/ EndGame2
    \/ \E c \in Conn, g \in AllGuesses : GuessWordFail(c, g)
    \/ \E c \in Conn, g \in AllGuesses : GuessWordRead(c, g)
    \/ GuessWordLate

GuessSpec == Init /\ [][GuessNext]_vars

\* ================================================================== claims
Kinds == {"turn", "grace", "voting"}

Armed == {k \in Kinds : timers[k] = "armed"}

HasTurn == turn_state.phase \in {"active", "paused", "voting"}

\* C1: the read-then-write sections of the GameService operations of a room
\* never interleave: while one operation is between its first read and its
\* last write (here: the lock holder, which has read the turn state and has
\* not finished), no other operation overwrites the room's turn state.
C1_NoInterleaving ==
    [][(lp.pc # "idle" /\ lp' = lp) => turn_state' = turn_state]_vars

\* C2: once end_game has completed and until the next start_game, the
\* TurnState, the TurnOrder, the votes, the secret word, the impostor id and
\* every member's role are absent.
C2_AbsentAfterEndGame ==
    hist.ended =>
        /\ turn_state = NoState
        /\ turn_order = <<>>
        /\ votes = EmptyMap
        /\ secret_word = NoWord
        /\ impostor = NoConn
        /\ \A c \in conns : role[c] = NoRole

\* C3: in every reachable state at most one of the turn, grace and voting
\* timer tasks of the room is armed.
C3_AtMostOneTimer == Cardinality(Armed) <= 1

\* C4: whenever the room has a TurnState (phase active, paused or voting),
\* turn_index is smaller than the length of TurnOrder and current_conn_id is
\* TurnOrder[turn_index].
C4_CurrentIsOrderAtIndex ==
    HasTurn =>
        /\ turn_state.turn_index < Len(turn_order)
        /\ turn_state.current_conn_id = turn_order[turn_state.turn_index + 1]

\* the payloads of type `type` in a sequence of payloads
OfType(o, type) == {o[i] : i \in {j \in 1..Len(o) : o[j].type = type}}

VotesFor(vs, voters, t) ==
    Cardinality({v \in DOMAIN vs : v \in Range(voters) /\ vs[v] = t})

\* C6: when voting is finalized, the game ends if some target other than
\* skip has at least floor(|voters|/2)+1 valid votes, and otherwise the game
\* does not end and the next round starts.
C6_FinalizeOutcome ==
    [][/\ (lp.pc = "fin1" /\ lp'.pc \in {"finw", "fin2"}) =>
             (lp'.winner # NoConn <=>
                 \E t \in Conn :
                     VotesFor(votes, ParseVoters(lp.st), t) >=
                         Len(ParseVoters(lp.st)) \div 2 + 1)
       /\ (lp.pc = "fin2" /\ lp'.pc # "fin2" /\ lp.winner # NoConn) =>
             game_state' = "ended"
       /\ (lp.pc = "fin2" /\ lp'.pc # "fin2" /\ lp.winner = NoConn) =>
             /\ game_state' = game_state
             /\ turn_state'.phase = "active"
             /\ turn_state'.round = lp.st.round + 1]_vars

\* C7: when a vote finalization ends the game, voted_out is the target that
\* reached the majority, the winner is crew exactly when voted_out is the
\* stored impostor id and impostor otherwise, and the result of game_ended
\* is the result that was broadcast as voting_result.
C7_VotedOutResult ==
    [][/\ (lp.pc = "fin1" /\ lp'.pc = "finw") =>
             VotesFor(votes, ParseVoters(lp.st), lp'.winner) >=
                 Len(ParseVoters(lp.st)) \div 2 + 1
       /\ (lp.pc = "finw" /\ lp'.pc = "fin2") =>
             /\ OfType(out', "voting_result") # {}
             /\ \A e \in OfType(out', "voting_result") :
                   e.result = lp'.result
             /\ lp'.result.voted_out = lp.winner
             /\ lp'.result.winner =
                    IF lp'.result.voted_out = impostor
                    THEN "crew" ELSE "impostor"
       /\ (lp.pc = "fin2" /\ lp'.pc = "fin3") =>
             /\ OfType(out', "game_ended") # {}
             /\ \A e \in OfType(out', "game_ended") :
                   e.result = lp.result]_vars

C7_Witness ==
    /\ lp.pc = "fin3"
    /\ lp.result.winner = "crew"
    /\ OfType(out, "game_ended") # {}

\* C8: in every state of a voting phase every recorded voter is in the
\* phase's voters list and every recorded target is skip or in voters;
\* before the deadline a cast_vote by a connection outside voters fails
\* Forbidden and one by a voter for a target outside voters and skip fails
\* Conflict.
C8_VotesWithinVoters ==
    turn_state.phase = "voting" =>
        LET voters == Range(ParseVoters(turn_state)) IN
        /\ \A v \in DOMAIN votes :
              v \in voters /\ votes[v] \in voters \cup {Skip}
        /\ \A v \in Conn, t \in Conn \cup {Skip} :
              CastVoteCheck(v, t) # "closed" =>
                  /\ v \notin voters => CastVoteCheck(v, t) = "Forbidden"
                  /\ (v \in voters /\ t \notin voters \cup {Skip}) =>
                        CastVoteCheck(v, t) = "Conflict"

C10_VotersFrozen ==
    [][/\ (turn_state.phase # "voting" /\ turn_state'.phase = "voting") =>
             turn_state'.voters = SortedSeq(conns)
       /\ (turn_state.phase = "voting" /\ turn_state'.phase = "voting") =>
             turn_state'.voters = turn_state.voters
       /\ (lp.pc = "idle" /\ lp'.pc \in {"vote2", "fin1"}) =>
             /\ turn_state.phase = "voting"
             /\ ParseVoters(lp'.st) = turn_state.voters
       /\ (/\ lp.pc \in {"vote2", "fin1", "finw"}
           /\ lp'.pc \in {"fin1", "finw", "fin2"}) =>
             ParseVoters(lp'.st) = ParseVoters(lp.st)
       /\ (lp.pc = "fin1" /\ lp'.pc = "finw") =>
             2 * VotesFor(votes, lp.st.voters, lp'.winner) >
                 Len(lp.st.voters)]_vars

C10_Witness ==
    /\ turn_state.phase = "voting"
    /\ Len(turn_state.voters) = 2
    /\ turn_state.voters # SortedSeq(conns)
    /\ lp.pc = "fin2"
    /\ lp.winner # NoConn

\* the lock holder is a cast_vote that found the deadline passed
IsLate(l) == l.pc \in {"fin1", "finw", "fin2", "fin3"} /\ l.late

\* C11: a cast_vote that arrives in phase voting at or after vote_deadline_ts
\* records no vote, finalizes the voting with the votes recorded so far and
\* then fails with Conflict, after the voting_result broadcast; a cast_vote
\* in a phase other than voting fails Conflict.
C11_LateVoteFinalizes ==
    [][/\ \A v \in Conn, t \in Conn \cup {Skip} :
             /\ turn_state.phase # "voting" => CastVoteCheck(v, t) = "Conflict"
             /\ (turn_state.phase = "voting" /\
                    now >= turn_state.vote_deadline_ts) =>
                       CastVoteCheck(v, t) = "closed"
       /\ (~IsLate(lp) /\ IsLate(lp')) =>
             /\ turn_state.phase = "voting"
             /\ now >= turn_state.vote_deadline_ts
             /\ lp'.st = turn_state
             /\ votes' = votes
       /\ IsLate(lp) => \A v \in DOMAIN votes' :
                            v \in DOMAIN votes /\ votes'[v] = votes[v]
       /\ (IsLate(lp) /\ lp.pc \in {"fin1", "finw"} /\ lp'.pc = "fin2") =>
             /\ OfType(out', "voting_result") = {[type |-> "voting_result",
                    round |-> lp.st.round, result |-> lp'.result]}
             /\ OfType(out', "error") = {}
             /\ lp'.result.votes = IF lp.pc = "fin1" THEN votes ELSE lp.votes
       /\ (IsLate(lp) /\ lp.pc = "fin1" /\ lp'.pc = "finw") =>
             lp'.votes = votes /\ out' = <<>>
       /\ (IsLate(lp) /\ lp'.pc = "idle") =>
             /\ lp.pc \in {"fin2", "fin3"}
             /\ Len(out') > 0
             /\ out'[Len(out')] = Err("Conflict", "cast_vote")
             /\ OfType(out', "voting_result") = {}
       /\ (IsLate(lp) /\ lp' # lp /\ lp'.pc # "idle") =>
             OfType(out', "error") = {}]_vars

C11_Witness ==
    /\ lp.pc = "idle"
    /\ Len(out) = 3
    /\ out[1].type = "round_started"
    /\ out[3] = Err("Conflict", "cast_vote")
    /\ turn_state.phase = "active"
    /\ turn_state.round = 2
    /\ now >= VoteDuration

\* a payload that is broadcast to the room, not sent to one connection or
\* returned to the caller
SentToRoom(e) ==
    /\ e.type \notin {"error", "role", "peek"}
    /\ ~(e.type = "lobby_state" /\ "conn" \in DOMAIN e)

\* the lock holder is the cast_vote whose vote was the last one missing
IsAllVoted(l) ==
    l.pc \in {"fin1", "finw"} /\ ~l.late /\ l.task = "none"

\* C12: every vote is broadcast as vote_cast when it is recorded, so the
\* vote_cast broadcasts come in recording order; the vote that brings the
\* number of recorded votes to |voters| starts the finalization at once and
\* the room broadcasts nothing between its vote_cast and the voting_result;
\* while fewer than |voters| votes are recorded and the deadline has not
\* passed no voting_result is broadcast.
C12_VoteCastThenResult ==
    [][/\ \A v \in DOMAIN votes' :
             (v \notin DOMAIN votes \/ votes'[v] # votes[v]) =>
                 out' = <<[type |-> "vote_cast", round |-> turn_state.round,
                           voter |-> v, target |-> votes'[v]]>>
       /\ (/\ lp.pc = "vote2"
           /\ votes' # votes
           /\ Cardinality(DOMAIN votes') >= Len(ParseVoters(lp.st))) =>
             IsAllVoted(lp') /\ lp'.pc = "fin1"
       /\ IsAllVoted(lp) =>
             \A i \in 1..Len(out') :
                 SentToRoom(out'[i]) => out'[i].type = "voting_result"
       /\ OfType(out', "voting_result") # {} =>
             /\ turn_state.phase = "voting"
             /\ \/ Cardinality(DOMAIN votes) >=
                       Len(ParseVoters(turn_state))
                \/ now >= turn_state.vote_deadline_ts]_vars

\* the connections whose conn hash holds role impostor
Impostors == {c \in Conn : role[c] = "impostor"}

\* a game is in progress: started, its roles assigned, not ended
InProgress ==
    /\ game_state = "in_progress"
    /\ sg.pc = "idle"
    /\ eg.pc = "idle"
    /\ impostor # NoConn

\* C13: each role assignment gives role impostor to exactly one member and
\* crew to every other member and stores that member as the impostor id,
\* and whatever happens while the game is in progress exactly one
\* connection, a member, holds role impostor and it is the stored id.
C13_ExactlyOneImpostor ==
    [][/\ (sg.pc = "s2" /\ sg'.pc = "idle" /\ conns # {}) =>
             /\ impostor' \in conns
             /\ \A c \in conns :
                   role'[c] = IF c = impostor' THEN "impostor" ELSE "crew"
       /\ InProgress' =>
             /\ Impostors' = {impostor'}
             /\ impostor' \in conns']_vars

\* C14: a role payload sent to the impostor, by assign_roles or by
\* handle_reconnect, is the fixed notice: it has no word field and does not
\* depend on the secret word; a role payload sent to a crew member carries
\* the room's current secret word.
C14_ImpostorNeverSeesWord ==
    [][\A e \in OfType(out', "role") :
          /\ e.role \in Roles
          /\ e.role = "impostor" =>
                /\ DOMAIN e = {"type", "role", "message", "conn"}
                /\ e.message = "you are impostor"
          /\ e.role = "crew" =>
                /\ DOMAIN e = {"type", "role", "word", "conn"}
                /\ e.word = secret_word'
                /\ e.word \in WORDS
          /\ role'[e.conn] = e.role
          /\ (sg.pc = "s2" /\ e.role = "impostor") => e.conn = impostor']_vars

C14_Witness ==
    /\ rc # NoConn
    /\ OfType(out, "role") = {ImpostorNotice(rc)}
    /\ secret_word \in WORDS
    /\ \E c \in conns : role[c] = "crew"

\* a start_game call has just failed
StartGameFailed == \E e \in OfType(out', "error") : e.op = "start_game"

\* what a failed start_game must leave alone
GameUnchanged ==
    UNCHANGED <<game_state, role, secret_word, impostor, turn_order,
                turn_state, timers>>

Max0(x) == IF x > 0 THEN x ELSE 0

IsResumeSkip(l) == l.pc = "adv2" /\ l.task = "none" /\ l.st.phase = "paused"

\* the step of handle_reconnect that reads the state under the lock
ResumeReadStep ==
    (rc # NoConn /\ rc' = NoConn) =>
        IF turn_state.phase = "paused" /\ turn_state.current_conn_id = rc
        THEN IF turn_state.turn_remaining <= 0
             THEN /\ IsResumeSkip(lp') /\ lp'.st = turn_state
                  /\ out' = <<TurnEnded(turn_state, "skipped")>>
                  /\ UNCHANGED <<turn_state, turn_order, votes, timers>>
             ELSE /\ lp'.pc = "resume2" /\ lp'.st = turn_state
                  /\ DOMAIN lp'.new = (DOMAIN turn_state \cup
                         {"deadline_ts"}) \
                         {"turn_remaining", "grace_deadline_ts"}
                  /\ lp'.new.phase = "active"
                  /\ lp'.new.deadline_ts = now + turn_state.turn_remaining
                  /\ \A k \in {"round", "turn_index", "current_conn_id"} :
                        lp'.new[k] = turn_state[k]
                  /\ UNCHANGED <<turn_state, turn_order, votes, timers>>
        ELSE /\ UNCHANGED <<turn_state, turn_order, votes, timers, lp>>
             /\ out' = <<>>

\* the step of handle_reconnect that writes the resumed turn
ResumeWriteStep ==
    (lp.pc = "resume2" /\ lp'.pc # "resume2") =>
        /\ turn_state' = lp.new
        /\ timers'.grace = "none"
        /\ timers'.turn = "armed"
        /\ out' = <<Ev("turn_resumed", lp.st.round, lp.st.turn_index)>>

\* the skipped turn is followed by the next turn or by the voting
SkipMovesOn ==
    \/ /\ turn_state'.phase = "active"
       /\ turn_state'.round = lp.st.round
       /\ turn_state'.turn_index = lp.st.turn_index + 1
    \/ /\ turn_state'.phase = "voting"
       /\ turn_state'.round = lp.st.round

\* C17: handle_reconnect(room, c) while the phase is paused and c
\* is current_conn_id either, with turn_remaining <= 0, ends the turn with
\* reason skipped and moves to the next turn or to voting, or returns the
\* same turn to phase active with deadline_ts = now + turn_remaining and
\* without the pause fields, cancels the grace timer and arms the turn
\* timer; in any other case it changes no turn state.
C17_ResumeOnReconnect ==
    [][/\ ResumeReadStep
       /\ ResumeWriteStep
       /\ (IsResumeSkip(lp) /\ lp' # lp) => SkipMovesOn]_vars

\* a step in which a timer task that ended a turn finishes
\* _advance_turn_locked, with the game in progress, no start_game or
\* end_game under way and the TurnState still the one the task read: the
\* turn timer's for a speaker who is connected, the grace timer's for one
\* who is not
TimerAdvanceStep ==
    /\ lp.pc = "adv2"
    /\ lp.task \in {"turn", "grace"}
    /\ lp' # lp
    /\ eg.pc = "idle" /\ sg.pc = "idle"
    /\ UNCHANGED <<eg, sg>>
    /\ game_state = "in_progress"
    /\ turn_state = lp.st
    /\ (lp.st.current_conn_id \in conns) <=> (lp.task = "turn")

\* C18: a turn whose speaker stays silent is ended by the turn timer with
\* reason timeout once turn_duration has elapsed, a turn whose speaker
\* disconnected and did not reconnect is ended by the grace timer with
\* reason skipped once turn_grace has elapsed, and in both cases the next
\* speaker's turn or the voting phase then starts.
C18_TimedOutTurnMovesOn ==
    [][/\ (lp.pc = "idle" /\ lp'.pc = "adv2" /\ lp'.task = "turn") =>
             /\ turn_state.phase = "active"
             /\ now >= turn_state.deadline_ts
             /\ out' = <<TurnEnded(turn_state, "timeout")>>
       /\ (lp.pc = "idle" /\ lp'.pc = "adv2" /\ lp'.task = "grace") =>
             /\ turn_state.phase = "paused"
             /\ now >= turn_state.grace_deadline_ts
             /\ out' = <<TurnEnded(turn_state, "skipped")>>
       /\ TimerAdvanceStep =>
             \/ /\ turn_state'.phase = "active"
                /\ turn_state'.turn_index = lp.st.turn_index + 1
                /\ out' = <<Ev("turn_started", lp.st.round,
                               lp.st.turn_index + 1)>>
                /\ timers'.turn = "armed"
             \/ /\ turn_state'.phase = "voting"
                /\ lp'.pc = "sv2"]_vars

\* the tokens whose snapshot a consume_resume_token call returns in this step
TakenNow == {i \in DOMAIN hist.taken : hist'.taken[i] > hist.taken[i]}

\* C19: a resume token is consumed successfully at most once, also by calls
\* that run concurrently: one call returns the snapshot and the hash is gone,
\* every other one fails with not-found; peek_resume_token returns the
\* snapshot and leaves the token.
C19_TokenConsumedOnce ==
    [][/\ \A i \in DOMAIN hist'.taken : hist'.taken[i] <= 1
       /\ \A i \in TakenNow : \A t \in tokens' : t.id # i
       /\ \A e \in OfType(out', "peek") :
             /\ e.snapshot \in tokens
             /\ tokens' = tokens
             /\ TakenNow = {}
       /\ \A e \in OfType(out', "error") :
             e.kind = "NotFound" => (tokens' = tokens /\ TakenNow = {})]_vars

\* C20: RoomService.disconnect issues the token before it removes the
\* connection, so the snapshot holds the connection's nickname and ready
\* flag; a reconnect with the token makes the connection a member again
\* under the same conn_id with that nickname and ready flag; a second
\* reconnect with the same token fails NotFound and changes no membership.
C20_ReconnectRestores ==
    [][/\ \A t \in tokens' \ tokens :
             /\ t.conn \in conns /\ t.conn \notin conns'
             /\ t.nick = nick[t.conn]
             /\ t.ready = ready[t.conn]
       /\ \A i \in TakenNow :
             /\ hist.taken[i] = 0
             /\ \E t \in tokens \cup DOMAIN rd :
                   /\ t.id = i
                   /\ rc' = t.conn
                   /\ t.conn \in conns'
                   /\ nick'[t.conn] = t.nick
                   /\ ready'[t.conn] = t.ready
       /\ \A e \in OfType(out', "error") :
             e.kind = "NotFound" => UNCHANGED <<conns, ready, nick, host>>]_vars

\* C21: after any interleaving of add_conn and remove_conn calls, once no
\* call is under way, the host is unset or a member of the room, and it is
\* set when the room has a member.
C21_HostIsMember ==
    Quiet => /\ shost = NoMember \/ shost \in sconns
             /\ sconns # {} => shost # NoMember

\* C22: the first connection added to a room without a host becomes the
\* host and a later add_conn never changes the host; removing a member who
\* is not the host leaves the host unchanged; removing the host makes the
\* smallest remaining conn_id the host, or clears the host when no member
\* remains.
C22_HostElection ==
    [][\A m \in Member :
         /\ (mcall[m].pc = "setnx" /\ mcall'[m].pc # "setnx") =>
                shost' = IF shost = NoMember THEN m ELSE shost
         /\ (mcall[m].pc = "get" /\ mcall'[m].pc = "idle") =>
                shost' = shost /\ shost # m
         /\ (mcall[m].pc \in {"list", "set"} /\ mcall'[m].pc = "idle") =>
                shost' = IF sconns = {} THEN NoMember ELSE Min(sconns)]_vars

\* C23: join_room adds no connection to a room that has max_players
\* members, so a room never has more than max_players members.
C23_AtMostMaxPlayers == Quiet => Cardinality(sconns) <= MaxPlayers

\* C28: list_conns returns exactly the stored membership set, whatever
\* add_conn, remove_conn and list_conns calls came before it, also when
\* the first of them met an empty cache over a store that held members.
C28_ListConnsIsStored ==
    [][\A e \in OfType(out', "members") : e.conns = sconns]_vars

\* the step in which a finalization without majority runs
\* _start_next_round
NoMajorityStep ==
    /\ lp.pc = "fin2"
    /\ lp.winner = NoConn
    /\ lp' = Idle
    /\ eg' = eg

\* C24: TurnOrder is written only by start_game, once, and later only
\* cleared; a finalization without majority starts the next round with
\* round + 1, that same TurnOrder, the durations of the round before,
\* turn_index 0, an empty Votes map and an empty TurnWords list.
C24_SameOrderNextRound ==
    [][/\ turn_order' # turn_order =>
              \/ sg.pc = "s2" /\ sg' = Idle
              \/ turn_order' = <<>>
       /\ NoMajorityStep =>
              /\ turn_order # <<>>
              /\ turn_order' = turn_order
              /\ turn_state' =
                     [phase |-> "active", round |-> lp.st.round + 1,
                      turn_index |-> 0, current_conn_id |-> turn_order[1],
                      deadline_ts |-> now + lp.st.turn_duration,
                      turn_duration |-> lp.st.turn_duration,
                      turn_grace |-> lp.st.turn_grace,
                      vote_duration |-> lp.st.vote_duration]
              /\ votes' = EmptyMap
              /\ turn_words' = <<>>]_vars

\* the error the claim gives a submit_turn_word call of `c` with `word`
ExpectedSubmitError(c, word) ==
    IF Strip(word) = <<>> \/ turn_state.phase # "active" THEN "Conflict"
    ELSE IF turn_state.current_conn_id # c THEN "Forbidden"
    ELSE "ok"

GuessFailed(o) ==
    \E i \in 1..Len(o) : o[i].type = "error" /\ o[i].op = "guess_word"

\* C26: guess_word by a connection that is not the stored impostor fails
\* with Forbidden, and a failing guess_word ends no game, changes no state
\* and broadcasts nothing; guess_word by the impostor with a guess that is
\* not empty ends the game, the impostor winning exactly when the
\* normalized guess is the normalized secret word.
C26_GuessEndsGame ==
    [][/\ \A c \in Conn, g \in AllGuesses :
             (GuessWordFail(c, g) /\ impostor \notin {NoConn, c}) =>
                 out' = <<Err("Forbidden", "guess_word")>>
       /\ GuessFailed(out') =>
             /\ Len(out') = 1
             /\ UNCHANGED <<storeVars, timers, lp, eg, wordVars>>
       /\ (gw.pc = "word" /\ gw' = Idle /\ Strip(gw.guess) # <<>>) =>
             /\ Len(out') = 1
             /\ out'[1].type = "game_ended"
             /\ game_state' = "ended"
             /\ eg'.pc = "e2"
             /\ out'[1].result.impostor = gw.impostor
             /\ out'[1].result.winner \in {"impostor", "crew"}
             /\ out'[1].result.winner = "impostor" <=>
                    NormalizeGuess(gw.guess) =
                        NormalizeGuess(WordChars[out'[1].result.word])]_vars

\* the place of payload `p` in what socket `c` has been sent, 0 for none
PlaceIn(c, p) ==
    IF \E i \in 1..Len(inbox[c]) : inbox[c][i] = p
    THEN CHOOSE i \in 1..Len(inbox[c]) : inbox[c][i] = p
    ELSE 0

\* C27: any two payloads that two members have both been sent reached both
\* in the same relative order, the order in which the engine handed them to
\* broadcast, the turn_timer ticks of the timer tasks included.
C27_OneCommonOrder ==
    \A c \in Conn, p \in Range(sent), q \in Range(sent) :
        (p.seq < q.seq /\ PlaceIn(c, p) > 0 /\ PlaceIn(c, q) > 0) =>
            PlaceIn(c, p) < PlaceIn(c, q)

\* an end_game called from outside the voting (the end request, a guess)
\* is running, or has run since start_game last wrote a turn state
EndedFromOutside == hist.outside \/ eg.pc # "idle"

C30_TurnEndedOnce ==
    [][/\ \A e \in OfType(out', "turn_ended") :
             <<e.round, e.turn_index>> \notin hist.turns
       /\ (lp.pc = "adv2" /\ lp'.pc = "idle" /\ eg' = eg /\ sg' = sg) =>
             \/ /\ turn_state'.phase = "active"
                /\ turn_state'.round = lp.st.round
                /\ turn_state'.turn_index = lp.st.turn_index + 1
             \/ turn_state'.phase = "voting"
       /\ \A e \in OfType(out', "turn_ended") :
             e.reason = "timeout" =>
                 /\ turn_state.round = e.round
                 /\ turn_state.turn_index = e.turn_index
                 /\ now >= turn_state.deadline_ts]_vars

GamePayloads ==
    {"turn_started", "turn_ended", "turn_paused", "turn_resumed",
     "turn_timer", "voting_started", "vote_cast", "voting_result"}

\* C31: from the game_ended broadcast of a game until the room is started
\* again, none of turn_started, turn_ended, turn_paused, turn_resumed,
\* turn_timer, voting_started, vote_cast and voting_result is broadcast and
\* no timer task of the room begins a transition.
C31_SilentAfterGameEnded ==
    [][game_state = "ended" =>
           /\ \A i \in 1..Len(out') :
                  out'[i].type \in GamePayloads =>
                      \E j \in 1..(i - 1) : out'[j].type = "game_started"
           /\ ~(lp.pc = "idle" /\ lp'.pc # "idle" /\ lp'.task # "none")]_vars

\* the voters a tally is taken for: those of the voting state in the store
\* and those of the state the finalizing lock holder read
TallyVoters ==
    (IF turn_state.phase = "voting" THEN {ParseVoters(turn_state)} ELSE {}) \cup
    (IF lp.pc = "fin1" THEN {ParseVoters(lp.st)} ELSE {})

\* C32: for the recorded votes and the voters of a voting, at most one
\* target has floor(|voters|/2)+1 votes or more in the tally, and the tally
\* counts exactly the votes of voters for voters or for skip: a vote by a
\* non-voter or for another target is in no count.
C32_UniqueMajority ==
    \A voters \in TallyVoters :
        LET tally == TallyVotes(votes, voters) IN
        /\ Cardinality({t \in DOMAIN tally :
                           tally[t] >= Len(voters) \div 2 + 1}) <= 1
        /\ DOMAIN tally \subseteq Range(voters) \cup {Skip}
        /\ \A t \in DOMAIN tally :
               tally[t] = Cardinality({v \in Range(voters) \cap DOMAIN votes :
                                          votes[v] = t})

\* a voting whose recorded votes hold a vote that is in no count: one of
\* a connection that is not among its voters
C32_Witness ==
    /\ turn_state.phase = "voting"
    /\ ParseVoters(turn_state) # <<>>
    /\ \E v \in DOMAIN votes : v \notin Range(ParseVoters(turn_state))

\* the speaking time a turn state still grants at time t: what is left to
\* its deadline while active, the recorded remainder while paused
TurnBudget(state, t) ==
    IF state.phase = "active" THEN Max0(state.deadline_ts - t)
    ELSE Get(state, "turn_remaining", 0)

\* a step that keeps the stored turn: the same speaker's turn of the same
\* round before and after, active or paused, and no game started in it
SameTurnStep ==
    /\ turn_state.phase \in {"active", "paused"}
    /\ turn_state'.phase \in {"active", "paused"}
    /\ turn_state'.round = turn_state.round
    /\ turn_state'.turn_index = turn_state.turn_index
    /\ turn_state'.current_conn_id = turn_state.current_conn_id
    /\ \A i \in 1..Len(out') : out'[i].type # "game_started"

EmptyRoomVotingEntry ==
    /\ lp.pc = "adv2"
    /\ lp'.pc # "adv2"
    /\ lp.st.turn_index + 1 >= Len(turn_order)
    /\ conns = {}
    /\ eg.pc = eg'.pc
    /\ sg.pc = sg'.pc

\* C34: when the last turn of a round ends while the room has no members,
\* entering voting does nothing: the stored TurnState and the Votes stay as
\* they are, nothing is broadcast (neither round_ended nor voting_started),
\* no voting timer is armed and the call is over.
C34_EmptyRoomNoVoting ==
    [][EmptyRoomVotingEntry =>
           /\ turn_state' = turn_state
           /\ turn_state'.phase # "voting"
           /\ votes' = votes
           /\ \A i \in 1..Len(out') :
                  out'[i].type \notin {"round_ended", "voting_started"}
           /\ timers'.voting = "armed" => timers.voting = "armed"
           /\ lp'.pc = "idle"]_vars

\* the last turn of a round has ended in a room without members and the call
\* is over: the game is in progress, the state is still that turn's and no
\* timer is left
C34_Witness ==
    /\ game_state = "in_progress"
    /\ conns = {}
    /\ lp.pc = "idle"
    /\ turn_state.phase \in {"active", "paused"}
    /\ turn_order # <<>>
    /\ turn_state.turn_index + 1 >= Len(turn_order)
    /\ <<turn_state.round, turn_state.turn_index>> \in hist.turns
    /\ Armed = {}

\* ------------------------------------------- the turn state hash and cache
\* set_turn_state, get_turn_state and clear_turn_state of RedisRoomStore on
\* the hash of one room, called by the transitions of one game; a restart
\* of the process empties the cache and keeps the hash.

\* int_keys and float_keys of get_turn_state
IntKeys == {"round", "turn_index", "turn_remaining", "turn_duration",
            "turn_grace", "vote_duration"}

FloatKeys == {"deadline_ts", "grace_deadline_ts", "vote_deadline_ts"}

\* mapping of set_turn_state: str(value) for every field; the decimal
\* string of a number is the record [str |-> number], the string of a
\* string is the string
HashMapping(state) ==
    [k \in DOMAIN state |->
        IF k \in IntKeys \cup FloatKeys THEN [str |-> state[k]]
        ELSE state[k]]

\* parsed of get_turn_state for the answer of HGETALL: int(value) and
\* float(value) of the decimal strings, the other fields as they are
ParseTurnState(data) ==
    IF DOMAIN data = {} THEN NoState
    ELSE [k \in DOMAIN data |->
             IF k \in IntKeys \cup FloatKeys THEN data[k].str ELSE data[k]]

\* what get_turn_state returns: the cache entry if there is one
GetTurnState ==
    IF ts_cache # NoState THEN ts_cache ELSE ParseTurnState(ts_hash)

\* set_turn_state: HSET key mapping sets the fields of the mapping, the
\* other fields of the hash stay
SetTurnState(state) ==
    /\ ts_hash' = Merge(ts_hash, HashMapping(state))
    /\ ts_cache' = state
    /\ ts_written' = state
    /\ out' = <<>>
    /\ UNCHANGED <<gameVars, memVars, wireVars>>

\* _start_rounds -> _start_round of a game, with no state stored before;
\* the game's turn order is SortedSeq(Conn)
TsStartGame ==
    /\ GetTurnState = NoState
    /\ SetTurnState(StartRoundState(1, SortedSeq(Conn), TurnDuration, TurnGrace,
                                    VoteDuration))

\* _pause_turn_if_current
TsPause ==
    /\ GetTurnState.phase = "active"
    /\ SetTurnState(PausedState(GetTurnState))

\* _resume_turn_if_current with time left
TsResume ==
    /\ GetTurnState.phase = "paused"
    /\ Get(GetTurnState, "turn_remaining", 0) > 0
    /\ SetTurnState(ResumedState(GetTurnState))

\* _advance_turn_locked: the next turn, or _start_voting after the last one
TsAdvance ==
    /\ GetTurnState.phase \in {"active", "paused"}
    /\ IF GetTurnState.turn_index + 1 >= Len(SortedSeq(Conn))
       THEN SetTurnState(VotingState(GetTurnState, SortedSeq(Conn)))
       ELSE SetTurnState(NextTurnState(GetTurnState, SortedSeq(Conn)))

\* _finalize_voting_locked -> _start_next_round -> _start_round
TsNextRound ==
    /\ GetTurnState.phase = "voting"
    /\ GetTurnState.round < MaxRound
    /\ SetTurnState(StartRoundState(GetTurnState.round + 1, SortedSeq(Conn),
                                    Get(GetTurnState, "turn_duration", 30),
                                    Get(GetTurnState, "turn_grace", 60),
                                    Get(GetTurnState, "vote_duration", 60)))

\* a get_turn_state call of a reader (get_turn_snapshot): the value goes
\* out, a value parsed from the hash is cached
TsGet ==
    /\ ts_cache' = GetTurnState
    /\ out' = <<[type |-> "turn_state", state |-> GetTurnState]>>
    /\ UNCHANGED <<ts_hash, ts_written, gameVars, memVars, wireVars>>

\* clear_turn_state: DEL of the hash, pop of the cache entry
ClearTurnState ==
    /\ ts_hash' = EmptyMap
    /\ ts_cache' = NoState
    /\ ts_written' = NoState

\* end_game of the game: the game_ended broadcast, then clear_turn_state
TsEndGame ==
    /\ ts_hash # EmptyMap
    /\ ClearTurnState
    /\ out' = <<[type |-> "game_ended"]>>
    /\ UNCHANGED <<gameVars, memVars, wireVars>>

\* the process is started again: a new RedisRoomStore with empty caches
TsRestart ==
    /\ ts_cache # NoState
    /\ ts_cache' = NoState
    /\ out' = <<>>
    /\ UNCHANGED <<ts_hash, ts_written, gameVars, memVars, wireVars>>

TurnStoreNext ==
    \/ TsStartGame
    \/ TsPause
    \/ TsResume
    \/ TsAdvance
    \/ TsNextRound
    \/ TsGet
    \/ TsEndGame
    \/ TsRestart
    \/ Tick

TurnStoreSpec == Init /\ [][TurnStoreNext]_vars

\* C35: the persisted TurnState record, as get_turn_state parses it, is the
\* state last passed to set_turn_state, with the fields that state dropped
\* absent, and so is what get_turn_state returns with a populated cache.
C35_PersistedEqualsWritten ==
    /\ ts_written # NoState => ParseTurnState(ts_hash) = ts_written
    /\ ts_cache # NoState => ParseTurnState(ts_hash) = ts_cache

\* a game_ended payload goes out in this step
GameEndedNow == \E i \in 1..Len(out') : out'[i].type = "game_ended"

\* the game whose roles are stored has been ended already: its game_ended
\* has gone out (game_state is ended), its data are not yet cleared and no
\* start_game is under way
GameAlreadyEnded ==
    /\ game_state = "ended"
    /\ impostor # NoConn
    /\ turn_order # <<>>
    /\ sg.pc = "idle"

\* C36: for each game, game_ended is broadcast and the result stored (both
\* by end_game) at most once, whether the guess, the vote finalization and
\* the end request come one after the other or overlap: no end_game
\* broadcasts game_ended for a game that has been ended already.
C36_GameEndedOnce ==
    [][GameEndedNow => ~GameAlreadyEnded]_vars

\* C37: a reconnect restores a role only into the game the token was minted
\* in, so no two members of the room hold role impostor and a member that
\* holds role impostor is the stored impostor id.
C37_OneImpostor ==
    /\ Cardinality({c \in conns : role[c] = "impostor"}) <= 1
    /\ \A c \in conns : role[c] = "impostor" => impostor = c

\* a game is in progress: its roles are assigned and its TurnState stored
GameRunning ==
    /\ game_state = "in_progress"
    /\ impostor # NoConn
    /\ turn_order # <<>>
    /\ turn_state # NoState

\* C38: while a game is in progress no step starts it again: no game_started
\* goes out, the impostor id, the secret word and the TurnOrder stay or are
\* cleared, and the TurnState does not go back to an earlier round or turn.
C38_NoSecondStart ==
    [][GameRunning =>
           /\ \A i \in 1..Len(out') : out'[i].type # "game_started"
           /\ impostor' \in {impostor, NoConn}
           /\ secret_word' \in {secret_word, NoWord}
           /\ turn_order' \in {turn_order, <<>>}
           /\ turn_state' # NoState =>
                  \/ turn_state'.round > turn_state.round
                  \/ /\ turn_state'.round = turn_state.round
                     /\ turn_state'.turn_index >= turn_state.turn_index]_vars

\* C39: the voters of a voting phase took part in the game: they are
\* connections of the TurnOrder fixed at start_game, so a connection that
\* joined the room later is no voter and no target.
C39_VotersTookPart ==
    (turn_state.phase = "voting" /\ turn_order # <<>>) =>
        Range(ParseVoters(turn_state)) \subseteq Range(turn_order)

\* the timer task that ends a phase
PhaseTimer(phase) ==
    CASE phase = "active" -> "turn"
      [] phase = "paused" -> "grace"
      [] phase = "voting" -> "voting"

\* C40: whenever the room of a game in progress has a TurnState and no
\* handler is at work on it, the timer that ends the phase of that state is
\* armed; so also after the last turn of a round has ended in a room that
\* every member has left.
C40_PhaseHasTimer ==
    (/\ game_state = "in_progress"
     /\ turn_state # NoState
     /\ lp.pc = "idle" /\ eg.pc = "idle" /\ sg.pc = "idle") =>
        timers[PhaseTimer(turn_state.phase)] = "armed"

====
